---- MODULE Spec2Model ----
(***************************************************************************)
(* A model of the verso pagination engine (pagination-engine/src).         *)
(*                                                                         *)
(* Representation of the Rust values:                                      *)
(*   Option<T>   a sequence of length 0 (None) or 1 (Some(x) = <<x>>)      *)
(*   String      a sequence of one-character strings where the characters  *)
(*               matter (names, markers); element ids are naturals         *)
(*   text        an element's content: a sequence of paragraphs (the       *)
(*               pieces between '\n'), each a sequence of tokens; a token  *)
(*               n > 0 is a word of n characters, the token 0 is a run of  *)
(*               whitespace with no word in it                             *)
(*   line        a wrapped line: the sequence of the lengths of the words  *)
(*               (or word chunks) it holds, joined by single spaces        *)
(*   u8          a natural below U8Limit; a cast truncates (% U8Limit); an *)
(*               addition that leaves the range either aborts the call     *)
(*               (overflow checks on) or wraps (overflow checks off)       *)
(***************************************************************************)
EXTENDS Integers, Sequences, FiniteSets, TLC

\* ---------------------------------------------------------------- bounds

\* Longest element list handed to paginate.
MaxElems == 3

\* lines_per_page of the configurations that are checked.
LinesPerPage == 8

\* ------------------------------------------------------ program constants

\* Number of values of a u8 (Page.lines_used, PageElement.start_line, ...).
U8Limit == 256

None == <<>>

Some(x) == <<x>>

is_some(o) == Len(o) > 0

Max(a, b) == IF a >= b THEN a ELSE b

Min(a, b) == IF a <= b THEN a ELSE b

\* u8::saturating_sub / u32::saturating_sub
saturating_sub(a, b) == Max(0, a - b)

\* `x as u8`
as_u8(x) == x % U8Limit

\* ------------------------------------------------------------ types/element

ElementType ==
    {"SceneHeading", "Action", "Character", "Dialogue", "Parenthetical",
     "Transition", "Shot", "DualDialogueLeft", "DualDialogueRight",
     "ActBreak", "PageBreak", "BlankLine"}

\* Element::new, with_character_name, with_force_page_break
Element(id, element_type, content, character_name, force_page_break_after) ==
    [id |-> id,
     element_type |-> element_type,
     content |-> content,
     character_name |-> character_name,
     force_page_break_after |-> force_page_break_after]

\* ------------------------------------------------------------- types/config

\* impl Default for ElementStyle. line_spacing is the fraction num/den.
ElementStyleDefault ==
    [max_chars_per_line |-> 60,
     space_before |-> 1,
     space_after |-> 0,
     line_spacing |-> [num |-> 1, den |-> 1],
     can_split |-> TRUE,
     min_lines_before_split |-> 2,
     min_lines_after_split |-> 2,
     keep_with_next |-> FALSE,
     keep_with_next_lines |-> 0]

\* ElementStyle::default_for
default_for(element_type) ==
    CASE element_type = "SceneHeading" ->
           [ElementStyleDefault EXCEPT
              !.space_before = 2, !.keep_with_next = TRUE,
              !.keep_with_next_lines = 2, !.can_split = FALSE]
      [] element_type = "Action" ->
           [ElementStyleDefault EXCEPT
              !.space_before = 1, !.can_split = TRUE,
              !.min_lines_before_split = 2, !.min_lines_after_split = 2]
      [] element_type = "Character" ->
           [ElementStyleDefault EXCEPT
              !.max_chars_per_line = 38, !.space_before = 1,
              !.keep_with_next = TRUE, !.keep_with_next_lines = 2,
              !.can_split = FALSE]
      [] element_type = "Dialogue" ->
           [ElementStyleDefault EXCEPT
              !.max_chars_per_line = 35, !.space_before = 0,
              !.can_split = TRUE,
              !.min_lines_before_split = 2, !.min_lines_after_split = 2]
      [] element_type = "Parenthetical" ->
           [ElementStyleDefault EXCEPT
              !.max_chars_per_line = 25, !.space_before = 0,
              !.can_split = FALSE, !.keep_with_next = TRUE,
              !.keep_with_next_lines = 1]
      [] element_type = "Transition" ->
           [ElementStyleDefault EXCEPT
              !.max_chars_per_line = 20, !.space_before = 2,
              !.space_after = 1, !.can_split = FALSE]
      [] element_type = "ActBreak" ->
           [ElementStyleDefault EXCEPT
              !.space_before = 4, !.space_after = 4, !.can_split = FALSE]
      [] element_type = "PageBreak" ->
           [ElementStyleDefault EXCEPT
              !.space_before = 0, !.space_after = 0, !.can_split = FALSE]
      [] OTHER -> ElementStyleDefault

\* impl Default for ContinuationStyle: "(MORE)" and "(CONT'D)"
ContinuationStyleDefault ==
    [more_marker |-> <<"(", "M", "O", "R", "E", ")">>,
     contd_marker |-> <<"(", "C", "O", "N", "T", "'", "D", ")">>,
     enabled |-> TRUE]

\* impl Default for OrphanControlConfig
OrphanControlDefault ==
    [scene_heading_min_following |-> 2,
     character_min_dialogue_lines |-> 2,
     dialogue_min_before_split |-> 2,
     dialogue_min_after_split |-> 2]

\* The element types PageConfig::feature_film puts in element_styles.
FeatureFilmStyled ==
    {"SceneHeading", "Action", "Character", "Dialogue", "Parenthetical",
     "Transition", "ActBreak", "PageBreak", "Shot", "BlankLine"}

\* PageConfig::feature_film, with lines_per_page and continuation_style.enabled
\* left to the caller (the fields a caller of paginate may set differently).
feature_film(lines_per_page, enabled) ==
    [lines_per_page |-> lines_per_page,
     element_styles |-> [t \in FeatureFilmStyled |-> default_for(t)],
     continuation_style |-> [ContinuationStyleDefault EXCEPT !.enabled = enabled],
     orphan_control |-> OrphanControlDefault]

\* PageConfig::style_for: the configured style, or the static DEFAULT.
style_for(cfg, element_type) ==
    IF element_type \in DOMAIN cfg.element_styles
    THEN cfg.element_styles[element_type]
    ELSE ElementStyleDefault

\* ---------------------------------------------------- layout/line_calculator

RECURSIVE SumSeq(_)
SumSeq(s) == IF s = <<>> THEN 0 ELSE Head(s) + SumSeq(Tail(s))

\* String::len of a wrapped line: its words and the single spaces between them.
LineLen(line) == IF line = <<>> THEN 0 ELSE SumSeq(line) + Len(line) - 1

\* A &str whose chars all take `width` bytes in UTF-8: `chars` of them.
Str(chars, width) == [chars |-> chars, width |-> width]

\* str::len: the length in bytes.
str_len(s) == s.chars * s.width

\* str::is_char_boundary: the byte at index starts a char, or index is the
\* length.
is_char_boundary(s, index) == index <= str_len(s) /\ index % s.width = 0

\* &s[..index] for an index that is a char boundary
slice_to(s, index) == [s EXCEPT !.chars = index \div s.width]

\* &s[index..]
slice_from(s, index) == [s EXCEPT !.chars = s.chars - index \div s.width]

\* break_long_word that returns the word on one line.
break_long_word_whole(word, chars_per_line) ==
    [panicked |-> FALSE, lines |-> <<word>>]

\* The `while remaining.len() > chars_per_line` loop of break_long_word and
\* the push after it. Slicing a str at an index that is not a char boundary
\* panics: panicked tells it, and lines are then the lines pushed before the
\* panic.
RECURSIVE break_long_word_loop(_, _, _)
break_long_word_loop(lines, remaining, chars_per_line) ==
    IF str_len(remaining) > chars_per_line
    THEN IF is_char_boundary(remaining, chars_per_line)
         THEN break_long_word_loop(Append(lines, slice_to(remaining, chars_per_line)),
                                   slice_from(remaining, chars_per_line),
                                   chars_per_line)
         ELSE [panicked |-> TRUE, lines |-> lines]
    ELSE [panicked |-> FALSE,
          lines |-> IF str_len(remaining) > 0 THEN Append(lines, remaining) ELSE lines]

\* LineCalculator::break_long_word
break_long_word(word, chars_per_line) ==
    break_long_word_loop(<<>>, word, chars_per_line)

\* A word of the checked contents, given by its length: ASCII, one byte a
\* char.
ascii(word) == Str(word, 1)

\* Lines of one word each, every line given as the word (by its length) it
\* holds.
line_lengths(lines) == [i \in 1..Len(lines) |-> <<str_len(lines[i])>>]

\* The lines break_long_word returns for an ASCII word.
broken_lines(word, chars_per_line) ==
    line_lengths(break_long_word(ascii(word), chars_per_line).lines)

\* The `for word in words` loop of wrap_text and the flush after it.
RECURSIVE wrap_words(_, _, _, _)
wrap_words(words, current_line, lines, chars_per_line) ==
    IF words = <<>>
    THEN IF current_line # <<>> THEN Append(lines, current_line) ELSE lines
    ELSE LET word == Head(words)
             rest == Tail(words)
         IN  IF current_line = <<>>
             THEN IF word > chars_per_line
                  THEN wrap_words(rest, <<>>,
                                  lines \o broken_lines(word, chars_per_line),
                                  chars_per_line)
                  ELSE wrap_words(rest, <<word>>, lines, chars_per_line)
             ELSE IF LineLen(current_line) + 1 + word <= chars_per_line
                  THEN wrap_words(rest, Append(current_line, word), lines, chars_per_line)
                  ELSE IF word > chars_per_line
                       THEN wrap_words(rest, <<>>,
                                       Append(lines, current_line)
                                         \o broken_lines(word, chars_per_line),
                                       chars_per_line)
                       ELSE wrap_words(rest, <<word>>, Append(lines, current_line),
                                       chars_per_line)

\* str::split_whitespace: the words of a paragraph.
split_whitespace(paragraph) == SelectSeq(paragraph, LAMBDA t : t > 0)

\* One iteration of the `for paragraph in text.split('\n')` loop of wrap_text:
\* the lines it pushes.
wrap_paragraph(paragraph, chars_per_line) ==
    LET words == split_whitespace(paragraph)
    IN  IF paragraph = <<>> \/ words = <<>>
        THEN << <<>> >>
        ELSE wrap_words(words, <<>>, <<>>, chars_per_line)

\* The `for paragraph in text.split('\n')` loop of wrap_text over the
\* paragraphs lo..hi: the lines they push, in order (computed by halves).
RECURSIVE wrap_paragraphs(_, _, _, _)
wrap_paragraphs(paragraphs, lo, hi, chars_per_line) ==
    IF lo > hi
    THEN <<>>
    ELSE IF lo = hi
         THEN wrap_paragraph(paragraphs[lo], chars_per_line)
         ELSE LET mid == (lo + hi) \div 2
              IN  wrap_paragraphs(paragraphs, lo, mid, chars_per_line)
                    \o wrap_paragraphs(paragraphs, mid + 1, hi, chars_per_line)

\* str::is_empty of a content: no '\n' and no token.
text_is_empty(text) == text = << <<>> >>

RECURSIVE Flatten(_)
Flatten(ss) == IF ss = <<>> THEN <<>> ELSE Head(ss) \o Flatten(Tail(ss))

\* LineCalculator::wrap_text
wrap_text(text, chars_per_line) ==
    IF chars_per_line = 0
    THEN << split_whitespace(Flatten(text)) >>
    ELSE LET lines == wrap_paragraphs(text, 1, Len(text), chars_per_line)
         IN  IF lines = <<>> /\ ~text_is_empty(text)
             THEN <<<<>>>>
             ELSE lines

\* ((content_lines as f64) * line_spacing).ceil() as u32
spaced(content_lines, line_spacing) ==
    IF line_spacing.num > line_spacing.den
    THEN (content_lines * line_spacing.num + line_spacing.den - 1) \div line_spacing.den
    ELSE content_lines

\* LineCalculator::calculate
calculate(cfg, element) ==
    LET style == style_for(cfg, element.element_type)
        wrapped_lines == wrap_text(element.content, style.max_chars_per_line)
        content_lines == Len(wrapped_lines)
    IN  [content_lines |-> content_lines,
         space_before |-> style.space_before,
         space_after |-> style.space_after,
         total_lines |-> spaced(content_lines, style.line_spacing) + style.space_after,
         wrapped_lines |-> wrapped_lines]

\* calculate_with_spacing that adds space_before at the top of a page too.
calculate_with_spacing_always(cfg, element, page_start) ==
    LET calc == calculate(cfg, element)
    IN  [calc EXCEPT !.total_lines = calc.total_lines + calc.space_before]

\* LineCalculator::calculate_with_spacing
calculate_with_spacing(cfg, element, page_start) ==
    LET calc == calculate(cfg, element)
    IN  IF ~page_start
        THEN [calc EXCEPT !.total_lines = calc.total_lines + calc.space_before]
        ELSE calc

\* ------------------------------------------------------ layout/continuation

\* char::to_uppercase on the letters the checked names use.
UpperOf(c) ==
    CASE c = "j" -> "J" [] c = "o" -> "O" [] c = "h" -> "H" [] c = "n" -> "N"
      [] OTHER -> c

\* str::to_uppercase
to_uppercase(name) == [i \in 1..Len(name) |-> UpperOf(name[i])]

\* take that stops one item early.
take_one_less(s, n) == SubSeq(s, 1, Min(n, Len(s)) - 1)

\* Iterator::take(n) collected
take(s, n) == SubSeq(s, 1, Min(n, Len(s)))

\* Iterator::skip(n) collected
skip(s, n) == SubSeq(s, Min(n, Len(s)) + 1, Len(s))

\* The marker condition without the test of continuation.enabled.
continuation_marked_always(continuation, second_part_content) ==
    second_part_content # <<>>

\* The condition of split_dialogue for building continuation markers.
continuation_marked(continuation, second_part_content) ==
    continuation.enabled /\ second_part_content # <<>>

\* A contd value built from the name as written, not uppercased.
contd_prefix_plain(continuation, element) ==
    IF is_some(element.character_name)
    THEN Some(element.character_name[1] \o <<" ">> \o continuation.contd_marker)
    ELSE None

\* A contd value that is built for an element without character_name too.
contd_prefix_unnamed(continuation, element) ==
    IF is_some(element.character_name)
    THEN Some(to_uppercase(element.character_name[1]) \o <<" ">>
                \o continuation.contd_marker)
    ELSE Some(continuation.contd_marker)

\* The contd value split_dialogue builds from element.character_name:
\* format!("{} {}", name.to_uppercase(), continuation.contd_marker)
contd_prefix_of(continuation, element) ==
    IF is_some(element.character_name)
    THEN Some(to_uppercase(element.character_name[1]) \o <<" ">>
                \o continuation.contd_marker)
    ELSE None

\* ContinuationManager::split_dialogue
split_dialogue(cfg, element, line_calc, split_at_line) ==
    LET continuation == cfg.continuation_style
        actual_split == Min(split_at_line, Len(line_calc.wrapped_lines))
        first_part_content == take(line_calc.wrapped_lines, actual_split)
        second_part_content == skip(line_calc.wrapped_lines, actual_split)
        marked == continuation_marked(continuation, second_part_content)
    IN  [first_part_lines |-> Len(first_part_content),
         second_part_lines |-> Len(second_part_content),
         first_part_content |-> first_part_content,
         second_part_content |-> second_part_content,
         more_marker |-> IF marked THEN Some(continuation.more_marker) ELSE None,
         contd_prefix |-> IF marked THEN contd_prefix_of(continuation, element)
                          ELSE None]

\* ContinuationManager::split_action
split_action(line_calc, split_at_line) ==
    LET actual_split == Min(split_at_line, Len(line_calc.wrapped_lines))
        first_part_content == take(line_calc.wrapped_lines, actual_split)
        second_part_content == skip(line_calc.wrapped_lines, actual_split)
    IN  [first_part_lines |-> Len(first_part_content),
         second_part_lines |-> Len(second_part_content),
         first_part_content |-> first_part_content,
         second_part_content |-> second_part_content,
         more_marker |-> None,
         contd_prefix |-> None]

\* -------------------------------------------------------------- types/page

\* PageIdentifier::Sequential(n)
Sequential(n) == [kind |-> "Sequential", n |-> n]

\* PageIdentifier::Inserted { base, suffix }, the suffix as its character code
Inserted(base, suffix) == [kind |-> "Inserted", base |-> base, suffix |-> suffix]

\* PageIdentifier::Omitted(n)
Omitted(n) == [kind |-> "Omitted", n |-> n]

\* b'A'
CodeOfA == 65

\* PageIdentifier::sort_key: (base_number, suffix_ordinal)
sort_key(identifier) ==
    CASE identifier.kind = "Sequential" -> <<identifier.n, 0>>
      [] identifier.kind = "Inserted" ->
             <<identifier.base, identifier.suffix - CodeOfA + 1>>
      [] identifier.kind = "Omitted" -> <<identifier.n, 0>>

\* 'Z' as u8
CodeOfZ == 90

\* next that goes from suffix 'Z' back to suffix 'A' of the same base.
next_restarts(identifier) ==
    CASE identifier.kind = "Sequential" -> Sequential(identifier.n + 1)
      [] identifier.kind = "Inserted" ->
             IF identifier.suffix = CodeOfZ
             THEN Inserted(identifier.base, CodeOfA)
             ELSE Inserted(identifier.base, identifier.suffix + 1)
      [] identifier.kind = "Omitted" -> Sequential(identifier.n + 1)

\* PageIdentifier::next
next(identifier) ==
    CASE identifier.kind = "Sequential" -> Sequential(identifier.n + 1)
      [] identifier.kind = "Inserted" ->
             IF identifier.suffix = CodeOfZ
             THEN Sequential(identifier.base + 1)
             ELSE Inserted(identifier.base, as_u8(identifier.suffix + 1))
      [] identifier.kind = "Omitted" -> Sequential(identifier.n + 1)

\* Page::new
PageNew(identifier) ==
    [identifier |-> identifier,
     elements |-> <<>>,
     bottom_continuation |-> None,
     lines_used |-> 0]

\* ------------------------------------------------------ layout/page_breaker

\* PaginationState::new. overflowed is a history field, not a field of the
\* Rust struct: some u8 addition of this call has left 0..U8Limit-1.
PaginationStateNew ==
    [pages |-> <<>>,
     current_page |-> PageNew(Sequential(1)),
     page_number |-> 1,
     element_positions |-> <<>>,
     warnings |-> <<>>,
     break_count |-> 0,
     continuation_count |-> 0,
     overflowed |-> FALSE]

\* HashMap::insert
insert(map, key, value) ==
    [k \in DOMAIN map \cup {key} |-> IF k = key THEN value ELSE map[k]]

\* lines_remaining that forgets the lines already used.
lines_remaining_whole(s, lines_per_page) == lines_per_page

\* PaginationState::lines_remaining
lines_remaining(s, lines_per_page) ==
    saturating_sub(lines_per_page, s.current_page.lines_used)

\* PaginationState::at_page_start
at_page_start(s) == s.current_page.lines_used = 0

\* end_page that puts the finished page ahead of the earlier ones.
end_page_prepends(s) ==
    [s EXCEPT
       !.pages = <<s.current_page>> \o s.pages,
       !.current_page = PageNew(Sequential(s.page_number + 1)),
       !.page_number = s.page_number + 1,
       !.break_count = s.break_count + 1]

\* end_page that numbers the new page before advancing page_number.
end_page_stale_number(s) ==
    [s EXCEPT
       !.pages = Append(s.pages, s.current_page),
       !.current_page = PageNew(Sequential(s.page_number)),
       !.page_number = s.page_number + 1,
       !.break_count = s.break_count + 1]

\* PaginationState::end_page
end_page(s) ==
    [s EXCEPT
       !.pages = Append(s.pages, s.current_page),
       !.current_page = PageNew(Sequential(s.page_number + 1)),
       !.page_number = s.page_number + 1,
       !.break_count = s.break_count + 1]

\* PaginationState::add_element
add_element(s, element, line_calc, page_start) ==
    LET space_before == IF page_start THEN 0 ELSE line_calc.space_before
        used == s.current_page.lines_used
        start_line == as_u8(as_u8(used + space_before) + 1)
        content8 == as_u8(line_calc.content_lines)
        total8 == as_u8(line_calc.total_lines)
        page_element ==
            [element_id |-> element.id,
             start_line |-> start_line,
             line_count |-> content8,
             is_continuation |-> FALSE,
             line_range |-> None,
             continuation_prefix |-> None]
        position ==
            [pages |-> <<s.current_page.identifier>>,
             start_line |-> start_line,
             end_line |-> as_u8(as_u8(start_line + content8) + U8Limit - 1),
             is_split |-> FALSE]
        overflow ==
            \/ used + space_before >= U8Limit
            \/ as_u8(used + space_before) + 1 >= U8Limit
            \/ space_before + total8 >= U8Limit
            \/ used + as_u8(space_before + total8) >= U8Limit
            \/ start_line + content8 >= U8Limit
            \/ as_u8(start_line + content8) = 0
    IN  [s EXCEPT
           !.current_page.elements = Append(@, page_element),
           !.current_page.lines_used = as_u8(used + as_u8(space_before + total8)),
           !.element_positions = insert(@, element.id, position),
           !.overflowed = @ \/ overflow]

\* add_split_element_first_part that consumes space_before on an empty page too.
add_split_element_first_part_spaced(s, element, first_lines, more_marker, page_start, space_before) ==
    LET start_line == as_u8(as_u8(s.current_page.lines_used + space_before) + 1)
        first8 == as_u8(first_lines)
        page_element ==
            [element_id |-> element.id,
             start_line |-> start_line,
             line_count |-> first8,
             is_continuation |-> FALSE,
             line_range |-> Some([start |-> 0, end |-> first_lines]),
             continuation_prefix |-> None]
        used1 == as_u8(s.current_page.lines_used + as_u8(space_before + first8))
    IN  [s EXCEPT
           !.current_page.elements = Append(@, page_element),
           !.current_page.bottom_continuation =
               IF is_some(more_marker) THEN more_marker ELSE @,
           !.current_page.lines_used =
               IF is_some(more_marker) THEN as_u8(used1 + 1) ELSE used1,
           !.continuation_count = IF is_some(more_marker) THEN @ + 1 ELSE @]

\* PaginationState::add_split_element_first_part
add_split_element_first_part(s, element, first_lines, more_marker, page_start, space_before) ==
    LET actual_space == IF page_start THEN 0 ELSE space_before
        used == s.current_page.lines_used
        start_line == as_u8(as_u8(used + actual_space) + 1)
        first8 == as_u8(first_lines)
        page_element ==
            [element_id |-> element.id,
             start_line |-> start_line,
             line_count |-> first8,
             is_continuation |-> FALSE,
             line_range |-> Some([start |-> 0, end |-> first_lines]),
             continuation_prefix |-> None]
        used1 == as_u8(used + as_u8(actual_space + first8))
        overflow ==
            \/ used + actual_space >= U8Limit
            \/ as_u8(used + actual_space) + 1 >= U8Limit
            \/ actual_space + first8 >= U8Limit
            \/ used + as_u8(actual_space + first8) >= U8Limit
            \/ is_some(more_marker) /\ used1 + 1 >= U8Limit
    IN  [s EXCEPT
           !.current_page.elements = Append(@, page_element),
           !.current_page.bottom_continuation =
               IF is_some(more_marker) THEN more_marker ELSE @,
           !.current_page.lines_used =
               IF is_some(more_marker) THEN as_u8(used1 + 1) ELSE used1,
           !.continuation_count = IF is_some(more_marker) THEN @ + 1 ELSE @,
           !.overflowed = @ \/ overflow]

\* PaginationState::add_split_element_second_part
add_split_element_second_part(s, element, first_lines, second_lines, contd_prefix) ==
    LET extra_lines == IF is_some(contd_prefix) THEN 1 ELSE 0
        second8 == as_u8(second_lines)
        page_element ==
            [element_id |-> element.id,
             start_line |-> 1 + extra_lines,
             line_count |-> second8,
             is_continuation |-> TRUE,
             line_range |-> Some([start |-> first_lines,
                                  end |-> first_lines + second_lines]),
             continuation_prefix |-> contd_prefix]
    IN  [s EXCEPT
           !.current_page.elements = Append(@, page_element),
           !.current_page.lines_used = as_u8(extra_lines + second8),
           !.overflowed = @ \/ (extra_lines + second8 >= U8Limit)]

\* record_split_position that records nothing.
record_split_position_lost(s, element_id, first_page, second_page, start_line, end_line) ==
    s

\* PaginationState::record_split_position
record_split_position(s, element_id, first_page, second_page, start_line, end_line) ==
    [s EXCEPT
       !.element_positions =
           insert(@, element_id,
                  [pages |-> <<first_page, second_page>>,
                   start_line |-> start_line,
                   end_line |-> end_line,
                   is_split |-> TRUE])]

\* PaginationState::add_warning, with the message's two numbers.
add_warning(s, element_id, warning_type, requires, has) ==
    [s EXCEPT
       !.warnings = Append(@, [element_id |-> element_id,
                               warning_type |-> warning_type,
                               requires |-> requires,
                               has |-> has])]

\* finalize that keeps the current page even when it has no placement.
finalize_keeps_empty(s, timing_us, element_count) ==
    LET pages == Append(s.pages, s.current_page)
    IN  [pages |-> pages,
         element_positions |-> s.element_positions,
         warnings |-> s.warnings,
         stats |-> [page_count |-> Len(pages),
                    element_count |-> element_count,
                    break_count |-> s.break_count,
                    continuation_count |-> s.continuation_count,
                    timing_us |-> timing_us]]

\* finalize called with its two counts in each other's place.
finalize_swapped(s, timing_us, element_count) ==
    LET pages == IF s.current_page.elements # <<>>
                 THEN Append(s.pages, s.current_page)
                 ELSE s.pages
    IN  [pages |-> pages,
         element_positions |-> s.element_positions,
         warnings |-> s.warnings,
         stats |-> [page_count |-> Len(pages),
                    element_count |-> timing_us,
                    break_count |-> s.break_count,
                    continuation_count |-> s.continuation_count,
                    timing_us |-> element_count]]

\* PaginationState::finalize
finalize(s, timing_us, element_count) ==
    LET pages == IF s.current_page.elements # <<>>
                 THEN Append(s.pages, s.current_page)
                 ELSE s.pages
    IN  [pages |-> pages,
         element_positions |-> s.element_positions,
         warnings |-> s.warnings,
         stats |-> [page_count |-> Len(pages),
                    element_count |-> element_count,
                    break_count |-> s.break_count,
                    continuation_count |-> s.continuation_count,
                    timing_us |-> timing_us]]

\* estimate_following_lines: the loop over upcoming.iter().take(count).
RECURSIVE estimate_following_lines_from(_, _, _, _)
estimate_following_lines_from(cfg, upcoming, count, i) ==
    IF i >= Min(count, Len(upcoming))
    THEN 0
    ELSE LET lines == calculate(cfg, upcoming[i + 1])
         IN  (IF i = 0
              THEN lines.content_lines
              ELSE lines.space_before + lines.content_lines)
             + estimate_following_lines_from(cfg, upcoming, count, i + 1)

\* estimate_following_lines
estimate_following_lines(cfg, upcoming, count) ==
    estimate_following_lines_from(cfg, upcoming, count, 0)

Fits == [kind |-> "Fits", line |-> 0]

BreakBefore == [kind |-> "BreakBefore", line |-> 0]

SplitAt(line) == [kind |-> "SplitAt", line |-> line]

\* The Dialogue arm of decide_break.
decide_dialogue(lines, remaining, style, orphan) ==
    LET min_before == orphan.dialogue_min_before_split
        min_after == orphan.dialogue_min_after_split
        available_for_content == saturating_sub(remaining, lines.space_before)
        remaining_after_split == saturating_sub(lines.content_lines, available_for_content)
        split_line == saturating_sub(available_for_content, 1)
    IN  IF ~style.can_split
        THEN BreakBefore
        ELSE IF /\ available_for_content >= min_before
                /\ remaining_after_split >= min_after
                /\ split_line >= min_before
             THEN SplitAt(split_line)
             ELSE BreakBefore

\* The Action arm splitting at the lines remaining, space_before not deducted.
decide_action_unspaced(lines, remaining, style) ==
    LET min_before == style.min_lines_before_split
        min_after == style.min_lines_after_split
        remaining_after_split == saturating_sub(lines.content_lines, remaining)
    IN  IF ~style.can_split
        THEN BreakBefore
        ELSE IF remaining >= min_before /\ remaining_after_split >= min_after
             THEN SplitAt(remaining)
             ELSE BreakBefore

\* The Action arm of decide_break.
decide_action(lines, remaining, style) ==
    LET min_before == style.min_lines_before_split
        min_after == style.min_lines_after_split
        available_for_content == saturating_sub(remaining, lines.space_before)
        remaining_after_split == saturating_sub(lines.content_lines, available_for_content)
    IN  IF ~style.can_split
        THEN BreakBefore
        ELSE IF /\ available_for_content >= min_before
                /\ remaining_after_split >= min_after
             THEN SplitAt(available_for_content)
             ELSE BreakBefore

\* The look-ahead applied to every style, two elements ahead.
keep_with_next_breaks_any_style(element, total_needed, remaining, cfg, upcoming) ==
    /\ Len(upcoming) > 1
    /\ total_needed + estimate_following_lines(cfg, Tail(upcoming), 2) > remaining

\* The look-ahead of decide_break for an element that fits.
keep_with_next_breaks(element, total_needed, remaining, cfg, upcoming) ==
    LET style == style_for(cfg, element.element_type)
    IN  /\ style.keep_with_next
        /\ Len(upcoming) > 1
        /\ total_needed
             + estimate_following_lines(cfg, Tail(upcoming), style.keep_with_next_lines)
           > remaining

\* decide_break
decide_break(element, lines, total_needed, remaining, cfg, upcoming) ==
    IF total_needed <= remaining
    THEN IF keep_with_next_breaks(element, total_needed, remaining, cfg, upcoming)
         THEN BreakBefore
         ELSE Fits
    ELSE LET style == style_for(cfg, element.element_type)
         IN  CASE element.element_type = "Dialogue" ->
                    decide_dialogue(lines, remaining, style, cfg.orphan_control)
               [] element.element_type = "Action" ->
                    decide_action(lines, remaining, style)
               [] OTHER -> BreakBefore

\* The BreakBefore arm placing the element as if the page were not at its start.
apply_break_before_spaced(s, element, lines) ==
    add_element(IF ~at_page_start(s) THEN end_page(s) ELSE s, element, lines, FALSE)

\* The BreakBefore arm of paginate (also its fallback for a split that leaves
\* one side empty).
apply_break_before(s, element, lines) ==
    add_element(IF ~at_page_start(s) THEN end_page(s) ELSE s, element, lines, TRUE)

\* The SplitAt arm of paginate.
apply_split(s, cfg, element, lines, space_before, line) ==
    LET page_start == at_page_start(s)
        split == IF element.element_type = "Dialogue"
                 THEN split_dialogue(cfg, element, lines, line)
                 ELSE split_action(lines, line)
        first_page == s.current_page.identifier
        used == s.current_page.lines_used
        start_line == as_u8(as_u8(used + space_before) + 1)
        overflow == \/ used + space_before >= U8Limit
                    \/ as_u8(used + space_before) + 1 >= U8Limit
        s1 == add_split_element_first_part(s, element, split.first_part_lines,
                                           split.more_marker, page_start,
                                           lines.space_before)
        s2 == end_page(s1)
        second_page == s2.current_page.identifier
        s3 == add_split_element_second_part(s2, element, split.first_part_lines,
                                            split.second_part_lines,
                                            split.contd_prefix)
        s4 == record_split_position(s3, element.id, first_page, second_page,
                                    start_line, as_u8(split.second_part_lines))
    IN  IF split.first_part_lines > 0 /\ split.second_part_lines > 0
        THEN [s4 EXCEPT !.overflowed = @ \/ overflow]
        ELSE apply_break_before(s, element, lines)

\* The decision paginate takes for elements[i] (not a PageBreak) in state s.
decision_for(s, cfg, elements, i) ==
    LET element == elements[i]
        lines == calculate(cfg, element)
        space_before == IF at_page_start(s) THEN 0 ELSE lines.space_before
    IN  decide_break(element, lines, space_before + lines.total_lines,
                     lines_remaining(s, cfg.lines_per_page), cfg,
                     SubSeq(elements, i, Len(elements)))

\* The `match decision` of paginate.
apply_decision(s, cfg, element, lines, space_before, decision) ==
    CASE decision.kind = "Fits" -> add_element(s, element, lines, at_page_start(s))
      [] decision.kind = "BreakBefore" -> apply_break_before(s, element, lines)
      [] decision.kind = "SplitAt" ->
             apply_split(s, cfg, element, lines, space_before, decision.line)

\* The forced page break after an element, in paginate.
apply_force_page_break(s, element) ==
    IF element.force_page_break_after /\ ~at_page_start(s) THEN end_page(s) ELSE s

\* The ElementExceedsPage check that also warns of an element that exactly
\* fills a page.
check_exceeds_page_inclusive(s, cfg, element, lines) ==
    IF lines.total_lines >= cfg.lines_per_page
    THEN add_warning(s, Some(element.id), "ElementExceedsPage",
                     lines.total_lines, cfg.lines_per_page)
    ELSE s

\* The ElementExceedsPage check of paginate.
check_exceeds_page(s, cfg, element, lines) ==
    IF lines.total_lines > cfg.lines_per_page
    THEN add_warning(s, Some(element.id), "ElementExceedsPage",
                     lines.total_lines, cfg.lines_per_page)
    ELSE s

\* The handling of a PageBreak element that ends the page even when nothing
\* is on it.
apply_page_break_always(s) == end_page(s)

\* The handling of a PageBreak element in paginate.
apply_page_break(s) == IF ~at_page_start(s) THEN end_page(s) ELSE s

\* One iteration of the `for (idx, element)` loop of paginate, on elements[i].
loop_body(s, cfg, elements, i) ==
    LET element == elements[i]
        lines == calculate(cfg, element)
        space_before == IF at_page_start(s) THEN 0 ELSE lines.space_before
        decision == decision_for(s, cfg, elements, i)
    IN  IF element.element_type = "PageBreak"
        THEN apply_page_break(s)
        ELSE check_exceeds_page(
                 apply_force_page_break(
                     apply_decision(s, cfg, element, lines, space_before, decision),
                     element),
                 cfg, element, lines)

\* ------------------------------------------------------------------ inputs

\* "a\na\n...": n paragraphs of one short word (n >= 1).
Paragraphs(n) == [i \in 1..n |-> <<1>>]

\* One paragraph of n words, no two of which share a line under any style.
LongWords(n) == << [i \in 1..n |-> 31] >>

\* "INT. OFFICE - DAY"
HeadingText == << <<4, 6, 1, 3>> >>

\* "", the content of a PageBreak element
EmptyText == << <<>> >>

\* "john"
NameJohn == <<"j", "o", "h", "n">>

\* The elements the checked inputs are made of (the id is set by position).
Catalogue ==
    {Element(0, "SceneHeading", HeadingText, None, FALSE),
     Element(0, "Character", Paragraphs(1), None, FALSE),
     Element(0, "Transition", Paragraphs(1), None, FALSE),
     Element(0, "DualDialogueLeft", Paragraphs(1), None, TRUE),
     Element(0, "PageBreak", EmptyText, None, FALSE),
     Element(0, "Action", Paragraphs(1), None, FALSE),
     Element(0, "Action", LongWords(LinesPerPage - 4), None, FALSE),
     Element(0, "Action", LongWords(LinesPerPage - 2), None, FALSE),
     Element(0, "Action", Paragraphs(LinesPerPage + 1), None, FALSE),
     Element(0, "Dialogue", LongWords(LinesPerPage - 2), Some(NameJohn), FALSE),
     Element(0, "Dialogue", Paragraphs(LinesPerPage), None, FALSE)}

\* Element lists of length n over the catalogue, ids 1..n (ids are unique,
\* types/element.rs: "Unique identifier for each element").
InputsOfLen(n) ==
    {[i \in 1..n |-> [f[i] EXCEPT !.id = i]] : f \in [1..n -> Catalogue]}

Inputs == UNION {InputsOfLen(n) : n \in 0..MaxElems}

\* Elements for inputs with contents of U8Limit lines and more: an Action that
\* splits at the top of a page into LinesPerPage - 1 and U8Limit lines, and a
\* Transition of U8Limit - 1 lines (total_lines = U8Limit).
WideCatalogue ==
    {Element(0, "Action", Paragraphs(LinesPerPage - 1 + U8Limit), None, FALSE),
     Element(0, "Transition", Paragraphs(U8Limit - 1), None, FALSE),
     Element(0, "Action", LongWords(LinesPerPage - 4), None, FALSE),
     Element(0, "Dialogue", LongWords(LinesPerPage - 2), Some(NameJohn), FALSE),
     Element(0, "PageBreak", EmptyText, None, FALSE)}

WideInputsOfLen(n) ==
    {[i \in 1..n |-> [f[i] EXCEPT !.id = i]] : f \in [1..n -> WideCatalogue]}

WideInputs == UNION {WideInputsOfLen(n) : n \in 0..MaxElems}

\* Elements for inputs with a content whose line count is a multiple of
\* U8Limit: a SceneHeading of U8Limit lines (total_lines U8Limit, which is 0
\* as u8), a SceneHeading of one line, an Action that fills a page, and a
\* PageBreak.
WrapCatalogue ==
    {Element(0, "SceneHeading", Paragraphs(U8Limit), None, FALSE),
     Element(0, "SceneHeading", HeadingText, None, FALSE),
     Element(0, "Action", Paragraphs(LinesPerPage), None, FALSE),
     Element(0, "SceneHeading", Paragraphs(U8Limit), None, TRUE),
     Element(0, "Action", Paragraphs(LinesPerPage), None, TRUE),
     Element(0, "PageBreak", EmptyText, None, FALSE)}

WrapInputsOfLen(n) ==
    {[i \in 1..n |-> [f[i] EXCEPT !.id = i]] : f \in [1..n -> WrapCatalogue]}

WrapInputs == UNION {WrapInputsOfLen(n) : n \in 0..MaxElems}

Configs == {feature_film(LinesPerPage, enabled) : enabled \in BOOLEAN}

\* Longest wrapped_lines of a LineCalculation handed to split_dialogue and
\* split_action.
MaxLines == 3

\* The wrapped lines the checked LineCalculations are made of: "a" and "ab".
SomeLines == {<<1>>, <<2>>}

\* LineCalculation values built by hand, as the tests of continuation.rs do.
LineCalculations ==
    UNION {{[content_lines |-> n,
             space_before |-> 0,
             space_after |-> 0,
             total_lines |-> n,
             wrapped_lines |-> w] : w \in [1..n -> SomeLines]} : n \in 0..MaxLines}

\* The split indexes handed to split_dialogue and split_action.
SplitIndexes == 0..(MaxLines + 1)

\* The elements handed to split_dialogue.
DialogueElements ==
    {Element(1, "Dialogue", Paragraphs(1), name, FALSE) :
       name \in {None, Some(NameJohn)}}

\* The elements handed to calculate: those of the catalogue and elements
\* whose content is "".
CalculateElements ==
    Catalogue \cup {Element(0, t, EmptyText, None, FALSE) :
                      t \in {"Action", "Dialogue", "SceneHeading"}}

\* Most chars of a word handed to break_long_word.
MaxChars == 5

\* Most bytes of a char of such a word (UTF-8 has up to four).
MaxCharBytes == 2

\* Largest max_chars_per_line of the direct calls.
MaxPerLine == 3

\* The words handed to break_long_word.
Words == {Str(chars, width) : chars \in 1..MaxChars, width \in 1..MaxCharBytes}

\* Most words of a paragraph handed to calculate with a style of the caller.
MaxWords == 3

\* The paragraphs of up to MaxWords words, a word being up to one char longer
\* than the longest line.
WordParagraphs ==
    UNION {[1..n -> 1..(MaxPerLine + 1)] : n \in 0..MaxWords}

\* An empty paragraph, one of whitespace only, and words around a second
\* whitespace run.
OtherParagraphs == {<<>>, <<0>>, <<1, 0, 1>>}

\* The contents handed to calculate with a style of the caller: one
\* paragraph, or two with a '\n' between them.
Texts ==
    {<<p>> : p \in WordParagraphs \cup OtherParagraphs}
      \cup {<<p, q>> : p \in WordParagraphs, q \in OtherParagraphs}
      \cup {<<q, p>> : p \in WordParagraphs, q \in OtherParagraphs}

\* Largest space_before and space_after of a style of the caller.
MaxSpace == 2

\* line_spacing 1.0, 1.5 and 2.0
LineSpacings ==
    {[num |-> 1, den |-> 1], [num |-> 3, den |-> 2], [num |-> 2, den |-> 1]}

\* The contents handed to calculate_with_spacing.
SpacingTexts == {EmptyText, Paragraphs(1), Paragraphs(3), HeadingText}

\* A PageConfig of the caller: cfg with element_styles.insert(element_type,
\* style).
with_style(cfg, element_type, style) ==
    [cfg EXCEPT !.element_styles = insert(cfg.element_styles, element_type, style)]

\* Largest page number of an identifier handed to next and sort_key.
MaxPage == 3

\* The identifiers handed to next and sort_key: Sequential(n), Omitted(n) and
\* Inserted { base, suffix } with suffix in 'A'..'Z'.
Identifiers ==
    {Sequential(n) : n \in 1..MaxPage}
      \cup {Omitted(n) : n \in 1..MaxPage}
      \cup {Inserted(base, suffix) : base \in 1..MaxPage, suffix \in CodeOfA..CodeOfZ}

\* Configurations of a caller who changes the split rules of the feature
\* film format: Action and Dialogue without can_split; or every split minimum
\* 0, with space_after 0 or 2 for Action; or Dialogue with space_before 1.
StyledConfigs ==
    LET base == feature_film(LinesPerPage, TRUE)
        action == default_for("Action")
        dialogue == default_for("Dialogue")
    IN  {with_style(with_style(base, "Action", [action EXCEPT !.can_split = FALSE]),
                    "Dialogue", [dialogue EXCEPT !.can_split = FALSE])}
          \cup {[with_style(base, "Action",
                            [action EXCEPT !.min_lines_before_split = 0,
                                           !.min_lines_after_split = 0,
                                           !.space_after = space_after])
                   EXCEPT !.orphan_control.dialogue_min_before_split = 0,
                          !.orphan_control.dialogue_min_after_split = 0] :
                   space_after \in {0, 2}}
          \cup {with_style(base, "Dialogue", [dialogue EXCEPT !.space_before = 1])}

\* The elements of the inputs paginated under those configurations.
StyledCatalogue ==
    {Element(0, "SceneHeading", HeadingText, None, FALSE),
     Element(0, "SceneHeading", Paragraphs(U8Limit), None, FALSE),
     Element(0, "Action", Paragraphs(LinesPerPage - 1), None, FALSE),
     Element(0, "Dialogue", Paragraphs(LinesPerPage - 2), Some(NameJohn), FALSE),
     Element(0, "Dialogue", Paragraphs(LinesPerPage + 2), Some(NameJohn), FALSE),
     Element(0, "PageBreak", EmptyText, None, FALSE)}

StyledInputsOfLen(n) ==
    {[i \in 1..n |-> [f[i] EXCEPT !.id = i]] : f \in [1..n -> StyledCatalogue]}

StyledInputs == UNION {StyledInputsOfLen(n) : n \in 0..MaxElems}

\* No direct call yet.
NoCall == [fn |-> "none"]

\* The values Instant::elapsed may give.
TimingValues == {0, 1}

\* ------------------------------------------------------------------- state

VARIABLES
    elements,   \* the element list of the running call of paginate
    config,     \* its PageConfig
    state,      \* its PaginationState
    idx,        \* the number of elements the loop has processed
    pc,         \* "loop", "done" (the call returned) or "panic" (it aborted)
    result,     \* Option<PaginationResult>: what the call returned
    call,       \* 1 for the first call, 2 for the second
    mode,       \* how the second call's input was made: "same" or "dropped"
    first,      \* Option: the first call's result without timing_us
    probe       \* the last direct call of a library function, with its result

vars == <<elements, config, state, idx, pc, result, call, mode, first, probe>>

Init ==
    /\ elements \in Inputs
    /\ config \in Configs
    /\ state = PaginationStateNew
    /\ idx = 0
    /\ pc = "loop"
    /\ result = None
    /\ call = 1
    /\ mode = "same"
    /\ first = None
    /\ probe = NoCall

\* paginate called on an input with contents of U8Limit lines and more.
InitWide ==
    /\ elements \in WideInputs
    /\ config \in Configs
    /\ state = PaginationStateNew
    /\ idx = 0
    /\ pc = "loop"
    /\ result = None
    /\ call = 1
    /\ mode = "same"
    /\ first = None
    /\ probe = NoCall

\* paginate called on an input that may hold a content of U8Limit lines.
InitWrap ==
    /\ elements \in WrapInputs
    /\ config \in Configs
    /\ state = PaginationStateNew
    /\ idx = 0
    /\ pc = "loop"
    /\ result = None
    /\ call = 1
    /\ mode = "same"
    /\ first = None
    /\ probe = NoCall

\* paginate called under a configuration with the caller's split rules.
InitStyled ==
    /\ elements \in StyledInputs
    /\ config \in StyledConfigs
    /\ state = PaginationStateNew
    /\ idx = 0
    /\ pc = "loop"
    /\ result = None
    /\ call = 1
    /\ mode = "same"
    /\ first = None
    /\ probe = NoCall

\* One loop iteration. An overflowing u8 addition aborts the call when
\* overflow checks are compiled in and wraps when they are not.
Iterate ==
    LET new == loop_body(state, config, elements, idx + 1)
    IN  /\ pc' \in (IF new.overflowed THEN {"loop", "panic"} ELSE {"loop"})
        /\ state' = IF pc' = "panic" THEN state ELSE new
        /\ idx' = IF pc' = "panic" THEN idx ELSE idx + 1
        /\ UNCHANGED <<elements, config, result, call, mode, first, probe>>

InLoop == pc = "loop" /\ idx < Len(elements)

\* paginate, loop iteration on a PageBreak element
StepPageBreak ==
    /\ InLoop
    /\ elements[idx + 1].element_type = "PageBreak"
    /\ Iterate

\* paginate, loop iteration whose decision is Fits
StepFits ==
    /\ InLoop
    /\ elements[idx + 1].element_type # "PageBreak"
    /\ decision_for(state, config, elements, idx + 1).kind = "Fits"
    /\ Iterate

\* paginate, loop iteration whose decision is BreakBefore
StepBreakBefore ==
    /\ InLoop
    /\ elements[idx + 1].element_type # "PageBreak"
    /\ decision_for(state, config, elements, idx + 1).kind = "BreakBefore"
    /\ Iterate

\* paginate, loop iteration whose decision is SplitAt
StepSplit ==
    /\ InLoop
    /\ elements[idx + 1].element_type # "PageBreak"
    /\ decision_for(state, config, elements, idx + 1).kind = "SplitAt"
    /\ Iterate

\* paginate, after the loop: take the time and finalize.
Finalize ==
    /\ pc = "loop"
    /\ idx = Len(elements)
    /\ \E timing \in TimingValues :
           result' = Some(finalize(state, timing, Len(elements)))
    /\ pc' = "done"
    /\ UNCHANGED <<elements, config, state, idx, call, mode, first, probe>>

\* A PaginationResult without stats.timing_us.
without_timing(r) ==
    [pages |-> r.pages,
     element_positions |-> r.element_positions,
     warnings |-> r.warnings,
     stats |-> [page_count |-> r.stats.page_count,
                element_count |-> r.stats.element_count,
                break_count |-> r.stats.break_count,
                continuation_count |-> r.stats.continuation_count]]

\* The caller paginates again, with the same configuration: the same
\* elements, or the elements without their trailing PageBreak.
SecondInputs ==
    [same |-> elements,
     dropped |-> IF elements = <<>> THEN <<>>
                 ELSE SubSeq(elements, 1, Len(elements) - 1)]

Repaginate ==
    /\ pc = "done"
    /\ call = 1
    /\ \E m \in {"same", "dropped"} :
           /\ m = "dropped" =>
                  /\ elements # <<>>
                  /\ elements[Len(elements)].element_type = "PageBreak"
           /\ mode' = m
           /\ elements' = SecondInputs[m]
    /\ first' = Some(without_timing(result[1]))
    /\ state' = PaginationStateNew
    /\ idx' = 0
    /\ pc' = "loop"
    /\ result' = None
    /\ call' = 2
    /\ UNCHANGED <<config, probe>>

\* A test or a caller builds a configuration and calls one function of the
\* layout module directly; pc is "called" once it has returned.
InitCalls ==
    /\ elements = <<>>
    /\ config \in Configs
    /\ state = PaginationStateNew
    /\ idx = 0
    /\ pc = "idle"
    /\ result = None
    /\ call = 1
    /\ mode = "same"
    /\ first = None
    /\ probe = NoCall

\* ContinuationManager::split_dialogue called on an element, a
\* LineCalculation and a split index.
CallSplitDialogue ==
    /\ pc = "idle"
    /\ \E element \in DialogueElements, line_calc \in LineCalculations,
          split_at_line \in SplitIndexes :
           probe' = [fn |-> "split_dialogue",
                     element |-> element,
                     line_calc |-> line_calc,
                     split_at_line |-> split_at_line,
                     out |-> split_dialogue(config, element, line_calc,
                                            split_at_line)]
    /\ pc' = "called"
    /\ UNCHANGED <<elements, config, state, idx, result, call, mode, first>>

\* ContinuationManager::split_action called on a LineCalculation and a split
\* index.
CallSplitAction ==
    /\ pc = "idle"
    /\ \E line_calc \in LineCalculations, split_at_line \in SplitIndexes :
           probe' = [fn |-> "split_action",
                     line_calc |-> line_calc,
                     split_at_line |-> split_at_line,
                     out |-> split_action(line_calc, split_at_line)]
    /\ pc' = "called"
    /\ UNCHANGED <<elements, config, state, idx, result, call, mode, first>>

\* LineCalculator::calculate called on an element.
CallCalculate ==
    /\ pc = "idle"
    /\ \E element \in CalculateElements :
           probe' = [fn |-> "calculate",
                     cfg |-> config,
                     element |-> element,
                     out |-> calculate(config, element)]
    /\ pc' = "called"
    /\ UNCHANGED <<elements, config, state, idx, result, call, mode, first>>

\* LineCalculator::calculate called on an Action under a configuration whose
\* Action style has the caller's max_chars_per_line.
CallCalculateStyled ==
    /\ pc = "idle"
    /\ \E text \in Texts, chars_per_line \in 0..MaxPerLine :
          LET style == [default_for("Action") EXCEPT
                          !.max_chars_per_line = chars_per_line]
              cfg == with_style(config, "Action", style)
              element == Element(0, "Action", text, None, FALSE)
          IN  probe' = [fn |-> "calculate",
                        cfg |-> cfg,
                        element |-> element,
                        out |-> calculate(cfg, element)]
    /\ pc' = "called"
    /\ UNCHANGED <<elements, config, state, idx, result, call, mode, first>>

\* LineCalculator::calculate_with_spacing called on an Action under a
\* configuration whose Action style has the caller's space_before,
\* space_after and line_spacing; plain is what calculate returns for the
\* same element.
CallCalculateWithSpacing ==
    /\ pc = "idle"
    /\ \E text \in SpacingTexts, space_before \in 0..MaxSpace,
          space_after \in 0..MaxSpace, line_spacing \in LineSpacings,
          page_start \in BOOLEAN :
          LET style == [default_for("Action") EXCEPT
                          !.space_before = space_before,
                          !.space_after = space_after,
                          !.line_spacing = line_spacing]
              cfg == with_style(config, "Action", style)
              element == Element(0, "Action", text, None, FALSE)
          IN  probe' = [fn |-> "calculate_with_spacing",
                        cfg |-> cfg,
                        element |-> element,
                        at_page_start |-> page_start,
                        plain |-> calculate(cfg, element),
                        out |-> calculate_with_spacing(cfg, element, page_start)]
    /\ pc' = "called"
    /\ UNCHANGED <<elements, config, state, idx, result, call, mode, first>>

\* wrap_text hands a word longer than chars_per_line (which is not 0 there)
\* to LineCalculator::break_long_word.
CallBreakLongWord ==
    /\ pc = "idle"
    /\ \E word \in Words, chars_per_line \in 1..MaxPerLine :
          /\ str_len(word) > chars_per_line
          /\ probe' = [fn |-> "break_long_word",
                       word |-> word,
                       chars_per_line |-> chars_per_line,
                       out |-> break_long_word(word, chars_per_line)]
    /\ pc' = "called"
    /\ UNCHANGED <<elements, config, state, idx, result, call, mode, first>>

\* PageIdentifier::next called on an identifier, and sort_key on the
\* identifier and on what next returned.
CallNext ==
    /\ pc = "idle"
    /\ \E identifier \in Identifiers :
          probe' = [fn |-> "next",
                    identifier |-> identifier,
                    out |-> next(identifier),
                    key |-> sort_key(identifier),
                    out_key |-> sort_key(next(identifier))]
    /\ pc' = "called"
    /\ UNCHANGED <<elements, config, state, idx, result, call, mode, first>>

\* PageIdentifier::sort_key called on two identifiers, as a sort of pages
\* does.
CallSortKey ==
    /\ pc = "idle"
    /\ \E identifier \in Identifiers, other \in Identifiers :
          probe' = [fn |-> "sort_key",
                    identifier |-> identifier,
                    other |-> other,
                    key |-> sort_key(identifier),
                    other_key |-> sort_key(other)]
    /\ pc' = "called"
    /\ UNCHANGED <<elements, config, state, idx, result, call, mode, first>>

NextCalls ==
    \/ CallSplitDialogue
    \/ CallSplitAction
    \/ CallCalculate
    \/ CallBreakLongWord
    \/ CallCalculateStyled
    \/ CallCalculateWithSpacing
    \/ CallNext
    \/ CallSortKey

Next ==
    \/ StepPageBreak
    \/ StepFits
    \/ StepBreakBefore
    \/ StepSplit
    \/ Finalize
    \/ Repaginate

Spec == Init /\ [][Next]_vars

SpecWide == InitWide /\ [][Next]_vars

SpecWrap == InitWrap /\ [][Next]_vars

SpecStyled == InitStyled /\ [][Next]_vars

SpecCalls == InitCalls /\ [][NextCalls]_vars

\* ------------------------------------------------------------------ claims

Returned == pc = "done"

TheResult == result[1]

\* The ids of the input's elements that are not PageBreak elements.
PlacedIds == {elements[i].id : i \in {j \in 1..Len(elements) :
                                        elements[j].element_type # "PageBreak"}}

AllIds == {elements[i].id : i \in 1..Len(elements)}

C2_Original ==
    Returned => DOMAIN TheResult.element_positions = AllIds

\* C2, amended: element_positions has an entry for the id of every input
\* element that is not a PageBreak, and no other entry; with distinct ids it
\* has as many entries as the input has elements that are not PageBreak.
C2_Positions ==
    Returned =>
        /\ DOMAIN TheResult.element_positions = PlacedIds
        /\ Cardinality(DOMAIN TheResult.element_positions) =
             Cardinality({j \in 1..Len(elements) :
                            elements[j].element_type # "PageBreak"})

\* A result for an input with a PageBreak, a split element and an unsplit one.
C2_Witness ==
    /\ Returned
    /\ PlacedIds # AllIds
    /\ \E a, b \in DOMAIN TheResult.element_positions :
           /\ TheResult.element_positions[a].is_split
           /\ ~TheResult.element_positions[b].is_split

\* The pages of the running call: the finished ones and the current one.
AllPages == state.pages \o <<state.current_page>>

PageIndexes == 1..Len(AllPages)

CalcOfId(id) == calculate(config, elements[id])

StyleOfId(id) == style_for(config, elements[id].element_type)

IsSplit(pe) == pe.line_range # None

\* Every element of the input needs at most a page.
AllFitAPage ==
    \A i \in 1..Len(elements) :
        calculate(config, elements[i]).total_lines <= config.lines_per_page

\* The lines C3 counts for the first i placements of page P: the style's
\* space_before ahead of every placement but the first, and the line_count.
RECURSIVE CountedLines(_, _)
CountedLines(P, i) ==
    IF i = 0
    THEN 0
    ELSE CountedLines(P, i - 1)
         + (IF i = 1 THEN 0 ELSE StyleOfId(P.elements[i].element_id).space_before)
         + P.elements[i].line_count

MoreLine(P) == IF is_some(P.bottom_continuation) THEN 1 ELSE 0

Charged(pe) ==
    IF ~IsSplit(pe)
    THEN CalcOfId(pe.element_id).total_lines
    ELSE pe.line_count + (IF is_some(pe.continuation_prefix) THEN 1 ELSE 0)

\* The lines used by the first i placements of page P, the style's
\* space_before being consumed ahead of a placement unless the count was 0.
RECURSIVE ChargedLines(_, _)
ChargedLines(P, i) ==
    IF i = 0
    THEN 0
    ELSE LET used == ChargedLines(P, i - 1)
         IN  used
             + (IF used % U8Limit = 0 THEN 0
                ELSE StyleOfId(P.elements[i].element_id).space_before)
             + Charged(P.elements[i])

C4_PageCapacity ==
    AllFitAPage =>
        \A p \in PageIndexes :
            /\ AllPages[p].lines_used <= config.lines_per_page + 1
            /\ AllPages[p].lines_used > config.lines_per_page =>
                   is_some(AllPages[p].bottom_continuation)

\* A dialogue split under a MORE marker filled its page, an action split
\* filled another, and the current page starts with a CONT'D prefix.
C4_Witness ==
    /\ AllFitAPage
    /\ \E p \in PageIndexes :
           /\ is_some(AllPages[p].bottom_continuation)
           /\ AllPages[p].lines_used = config.lines_per_page
    /\ \E p \in PageIndexes :
           /\ AllPages[p].elements # <<>>
           /\ is_some(AllPages[p].elements[1].continuation_prefix)

\* C5 as stated: no unsplit placement ends below the last line of its page.
C5_Original ==
    \A p \in PageIndexes :
        \A k \in 1..Len(AllPages[p].elements) :
            LET pe == AllPages[p].elements[k]
            IN  ~IsSplit(pe) =>
                    pe.start_line + pe.line_count - 1 <= config.lines_per_page

\* C5, amended: no unsplit placement of an element whose total_lines is at
\* most lines_per_page ends below the last line of its page.
C5_NoCrossing ==
    \A p \in PageIndexes :
        \A k \in 1..Len(AllPages[p].elements) :
            LET pe == AllPages[p].elements[k]
            IN  (~IsSplit(pe)
                 /\ CalcOfId(pe.element_id).total_lines <= config.lines_per_page) =>
                    pe.start_line + pe.line_count - 1 <= config.lines_per_page

\* An unsplit placement, not the first of its page, ends on the last line.
C5_Witness ==
    \E p \in PageIndexes :
        \E k \in 2..Len(AllPages[p].elements) :
            LET pe == AllPages[p].elements[k]
            IN  /\ ~IsSplit(pe)
                /\ pe.start_line + pe.line_count - 1 = config.lines_per_page

\* The placements of element id in the returned pages, as <<page index,
\* placement index>> pairs.
PlacementsOf(id) ==
    {pk \in UNION {{<<p, k>> : k \in 1..Len(TheResult.pages[p].elements)} :
                     p \in 1..Len(TheResult.pages)} :
        TheResult.pages[pk[1]].elements[pk[2]].element_id = id}

PlacementAt(pk) == TheResult.pages[pk[1]].elements[pk[2]]

\* Element id has two placements, on consecutive pages, whose line ranges are
\* [0, first) and [first, content_lines) with 0 < first < content_lines and
\* whose line_counts sum to content_lines.
TiledInTwo(id) ==
    \E a, b \in PlacementsOf(id) :
        /\ PlacementsOf(id) = {a, b}
        /\ b[1] = a[1] + 1
        /\ ~PlacementAt(a).is_continuation
        /\ PlacementAt(b).is_continuation
        /\ IsSplit(PlacementAt(a))
        /\ IsSplit(PlacementAt(b))
        /\ LET ra == PlacementAt(a).line_range[1]
               rb == PlacementAt(b).line_range[1]
               content_lines == CalcOfId(id).content_lines
           IN  /\ ra.start = 0
               /\ rb.start = ra.end
               /\ rb.end = content_lines
               /\ 0 < ra.end
               /\ ra.end < content_lines
               /\ PlacementAt(a).line_count + PlacementAt(b).line_count
                    = content_lines

\* C6: every element recorded with is_split has exactly two placements, on
\* consecutive pages, the first not a continuation with line_range
\* [0, first), the second a continuation with line_range
\* [first, content_lines), 0 < first < content_lines, and their line_counts
\* sum to content_lines; no element has more than two placements.
C6_SplitTiling ==
    Returned =>
        /\ \A id \in DOMAIN TheResult.element_positions :
               TheResult.element_positions[id].is_split => TiledInTwo(id)
        /\ \A id \in AllIds : Cardinality(PlacementsOf(id)) <= 2

\* The positions i of the input whose element has a keep_with_next style and
\* no force_page_break_after and is followed by an element that is not a
\* PageBreak.
KeptWithNext ==
    {i \in 1..(Len(elements) - 1) :
        /\ style_for(config, elements[i].element_type).keep_with_next
        /\ ~elements[i].force_page_break_after
        /\ elements[i].element_type # "PageBreak"
        /\ elements[i + 1].element_type # "PageBreak"}

\* C7: an element with a keep_with_next style and no force_page_break_after
\* that is followed by an element other than a PageBreak starts on the page
\* its successor starts on:
\* element_positions[first].pages[0] == element_positions[next].pages[0].
C7_KeepWithNext ==
    Returned =>
        \A i \in KeptWithNext :
            TheResult.element_positions[elements[i].id].pages[1]
              = TheResult.element_positions[elements[i + 1].id].pages[1]

\* The last placement of page P holds the lines of a Dialogue up to a line
\* before its last: its line_range ends before content_lines.
EndsInDialogueFirstHalf(P) ==
    /\ P.elements # <<>>
    /\ LET pe == P.elements[Len(P.elements)]
       IN  /\ IsSplit(pe)
           /\ pe.line_range[1].end < CalcOfId(pe.element_id).content_lines
           /\ elements[pe.element_id].element_type = "Dialogue"

LastIsNamed(P) ==
    is_some(elements[P.elements[Len(P.elements)].element_id].character_name)

\* C8 as stated: a page has bottom_continuation iff its final placement has a
\* line_range ending before content_lines and is of a Dialogue with a
\* character_name.
C8_Original ==
    Returned =>
        \A p \in 1..Len(TheResult.pages) :
            is_some(TheResult.pages[p].bottom_continuation) <=>
                (EndsInDialogueFirstHalf(TheResult.pages[p])
                 /\ LastIsNamed(TheResult.pages[p]))

\* C8, amended: a page has bottom_continuation iff its final placement has a
\* line_range ending before content_lines and is of a Dialogue, and
\* continuation_style.enabled is true (with or without a character_name).
C8_BottomContinuation ==
    Returned =>
        \A p \in 1..Len(TheResult.pages) :
            is_some(TheResult.pages[p].bottom_continuation) <=>
                (EndsInDialogueFirstHalf(TheResult.pages[p])
                 /\ config.continuation_style.enabled)

\* A result with a page under a MORE marker that ends in the first half of a
\* Dialogue without character_name.
C8_Witness ==
    /\ Returned
    /\ \E p \in 1..Len(TheResult.pages) :
           /\ is_some(TheResult.pages[p].bottom_continuation)
           /\ EndsInDialogueFirstHalf(TheResult.pages[p])
           /\ ~LastIsNamed(TheResult.pages[p])

\* The placements of the returned pages.
AllPlacements ==
    UNION {{<<p, k>> : k \in 1..Len(TheResult.pages[p].elements)} :
             p \in 1..Len(TheResult.pages)}

\* The placement is the second half of a split Dialogue with a
\* character_name.
NamedDialogueSecondHalf(pe) ==
    /\ IsSplit(pe)
    /\ pe.is_continuation
    /\ pe.line_range[1].start > 0
    /\ elements[pe.element_id].element_type = "Dialogue"
    /\ is_some(elements[pe.element_id].character_name)

\* C9: a placement has a continuation_prefix, which is then not empty, iff it
\* is the second half of a split Dialogue with a character_name and
\* continuation_style.enabled is true.
C9_ContinuationPrefix ==
    Returned =>
        \A pk \in AllPlacements :
            /\ is_some(PlacementAt(pk).continuation_prefix) <=>
                   (NamedDialogueSecondHalf(PlacementAt(pk))
                    /\ config.continuation_style.enabled)
            /\ is_some(PlacementAt(pk).continuation_prefix) =>
                   PlacementAt(pk).continuation_prefix[1] # <<>>

\* A result with a second half under the prefix "JOHN (CONT'D)" and a split
\* Action.
C9_Witness ==
    /\ Returned
    /\ \E pk \in AllPlacements :
           PlacementAt(pk).continuation_prefix =
               Some(<<"J", "O", "H", "N", " ", "(", "C", "O", "N", "T", "'", "D", ")">>)
    /\ \E pk \in AllPlacements :
           /\ IsSplit(PlacementAt(pk))
           /\ elements[PlacementAt(pk).element_id].element_type = "Action"

\* The second call has returned and its input was the first call's input E
\* without its trailing PageBreak: elements is E' and first holds the result
\* for E.
DroppedReturned == Returned /\ call = 2 /\ mode = "dropped"

\* In the result for E, the page of the element before the trailing PageBreak
\* (the last page) is not full.
LastPageNotFilled ==
    /\ first[1].pages # <<>>
    /\ first[1].pages[Len(first[1].pages)].lines_used < config.lines_per_page

\* C10 as stated: page_count for E' is page_count for E minus one when the
\* element before the trailing PageBreak had not filled its page, and
\* page_count for E otherwise.
C10_Original ==
    DroppedReturned =>
        TheResult.stats.page_count =
            IF LastPageNotFilled
            THEN first[1].stats.page_count - 1
            ELSE first[1].stats.page_count

\* Some element of E has a keep_with_next style and the trailing PageBreak
\* among the keep_with_next_lines elements after it (elements is E', so the
\* PageBreak was at position Len(elements) + 1).
LooksAheadToPageBreak ==
    \E i \in 1..Len(elements) :
        /\ style_for(config, elements[i].element_type).keep_with_next
        /\ i + style_for(config, elements[i].element_type).keep_with_next_lines
             >= Len(elements) + 1

\* C10, amended: page_count for E' equals page_count for E, whether or not
\* the last page was filled, when no element with a keep_with_next style has
\* the trailing PageBreak among the elements it looks ahead to.
C10_TrailingPageBreak ==
    (DroppedReturned /\ ~LooksAheadToPageBreak) =>
        TheResult.stats.page_count = first[1].stats.page_count

\* Both calls returned two pages or more, the last page for E not filled.
C10_Witness ==
    /\ DroppedReturned
    /\ ~LooksAheadToPageBreak
    /\ LastPageNotFilled
    /\ first[1].stats.page_count >= 2
    /\ TheResult.stats.page_count = first[1].stats.page_count

\* The positions of the input, in order, whose element is not a PageBreak and
\* has total_lines above lines_per_page.
ExceedingPositions ==
    SelectSeq([i \in 1..Len(elements) |-> i],
              LAMBDA i : /\ elements[i].element_type # "PageBreak"
                         /\ calculate(config, elements[i]).total_lines
                              > config.lines_per_page)

\* Page P starts with the unsplit placement of an element whose total_lines
\* is lines_per_page.
StartsWithExactFill(P) ==
    /\ P.elements # <<>>
    /\ ~IsSplit(P.elements[1])
    /\ CalcOfId(P.elements[1].element_id).total_lines = config.lines_per_page

\* C11: the warnings of the result are, in input order, one
\* ElementExceedsPage warning with the element's id for each element that is
\* not a PageBreak and has total_lines > lines_per_page, and nothing else; a
\* warned element has a position and a placement; an element with
\* total_lines = lines_per_page placed on an empty page leaves
\* lines_used = lines_per_page.
C11_ExceedsPageWarnings ==
    /\ Returned =>
           /\ Len(TheResult.warnings) = Len(ExceedingPositions)
           /\ \A k \in 1..Len(ExceedingPositions) :
                  /\ k <= Len(TheResult.warnings)
                  /\ TheResult.warnings[k].warning_type = "ElementExceedsPage"
                  /\ TheResult.warnings[k].element_id
                       = Some(elements[ExceedingPositions[k]].id)
                  /\ elements[ExceedingPositions[k]].id
                       \in DOMAIN TheResult.element_positions
                  /\ PlacementsOf(elements[ExceedingPositions[k]].id) # {}
    /\ \A p \in PageIndexes :
           StartsWithExactFill(AllPages[p]) =>
               AllPages[p].lines_used = config.lines_per_page

\* A result with two warnings for an input that starts with an element of
\* exactly lines_per_page lines, which got no warning.
C11_Witness ==
    /\ Returned
    /\ Len(TheResult.warnings) = 2
    /\ Len(elements) = 3
    /\ StartsWithExactFill(TheResult.pages[1])

\* C12: no call of paginate aborts, and every addition on the 8-bit counters
\* (lines_used, start_line, end_line, extra_lines + second_lines) stays
\* within 0..U8Limit-1.
C12_Totality ==
    /\ pc # "panic"
    /\ ~state.overflowed

\* The order of sort keys: base number first, then suffix ordinal.
KeyLess(a, b) == a[1] < b[1] \/ (a[1] = b[1] /\ a[2] < b[2])

\* C13: the i-th page of the result has identifier Sequential(i), so the
\* identifiers are strictly increasing under sort_key and none is Inserted
\* or Omitted.
C13_PageNumbering ==
    Returned =>
        /\ \A i \in 1..Len(TheResult.pages) :
               TheResult.pages[i].identifier = Sequential(i)
        /\ \A i, j \in 1..Len(TheResult.pages) :
               i < j => KeyLess(sort_key(TheResult.pages[i].identifier),
                                sort_key(TheResult.pages[j].identifier))

\* A result of four pages or more for an input with a PageBreak and an
\* element that was split.
C13_Witness ==
    /\ Returned
    /\ Len(TheResult.pages) >= 4
    /\ \E i \in 1..Len(elements) : elements[i].element_type = "PageBreak"
    /\ \E id \in DOMAIN TheResult.element_positions :
           TheResult.element_positions[id].is_split

\* The step processes elements[idx + 1].
ProcessesNext == pc = "loop" /\ idx < Len(elements) /\ idx' = idx + 1

\* C14: processing a PageBreak element leaves the pagination state unchanged
\* when lines_used = 0; when lines_used > 0 it appends the current page to
\* pages, starts a fresh empty page, adds one to break_count and changes
\* neither positions nor warnings nor any placement. The element processed
\* right after a PageBreak that left a fresh page gets the first placement,
\* at start_line 1, of the page after the finished ones.
C14_PageBreakElement ==
    [][/\ (ProcessesNext /\ elements[idx + 1].element_type = "PageBreak") =>
            IF state.current_page.lines_used = 0
            THEN state' = state
            ELSE /\ state'.pages = Append(state.pages, state.current_page)
                 /\ state'.current_page.elements = <<>>
                 /\ state'.current_page.lines_used = 0
                 /\ state'.current_page.bottom_continuation = None
                 /\ state'.break_count = state.break_count + 1
                 /\ state'.element_positions = state.element_positions
                 /\ state'.warnings = state.warnings
                 /\ state'.continuation_count = state.continuation_count
       /\ (/\ ProcessesNext
           /\ idx >= 1
           /\ elements[idx].element_type = "PageBreak"
           /\ state.current_page.elements = <<>>
           /\ elements[idx + 1].element_type # "PageBreak") =>
            LET pages == state'.pages \o <<state'.current_page>>
                page == pages[Len(state.pages) + 1]
            IN  /\ page.elements # <<>>
                /\ page.elements[1].element_id = elements[idx + 1].id
                /\ page.elements[1].start_line = 1
                /\ \A p \in 1..Len(state.pages) :
                       \A k \in 1..Len(state.pages[p].elements) :
                           state.pages[p].elements[k].element_id
                             # elements[idx + 1].id
      ]_vars

\* A PageBreak, the second element, has just ended the page of the first
\* element, and a third element is still to be placed.
C14_Witness ==
    /\ pc = "loop"
    /\ idx = 2
    /\ Len(elements) = 3
    /\ elements[2].element_type = "PageBreak"
    /\ elements[3].element_type # "PageBreak"
    /\ ~elements[1].force_page_break_after
    /\ Len(state.pages) = 1
    /\ state.break_count = 1
    /\ state.current_page.elements = <<>>

\* The pages of the running call after the step.
AllPagesAfter == state'.pages \o <<state'.current_page>>

\* The placements of element id after the step, as <<page index, placement
\* index>> pairs.
PlacementsAfter(id) ==
    {pk \in UNION {{<<p, k>> : k \in 1..Len(AllPagesAfter[p].elements)} :
                     p \in 1..Len(AllPagesAfter)} :
        AllPagesAfter[pk[1]].elements[pk[2]].element_id = id}

\* The step placed elements[idx + 1] without a split as the claim describes.
PlacedWhole ==
    LET id == elements[idx + 1].id
        content_lines == calculate(config, elements[idx + 1]).content_lines
        position == state'.element_positions[id]
        pk == CHOOSE x \in PlacementsAfter(id) : TRUE
        pe == AllPagesAfter[pk[1]].elements[pk[2]]
        used_before == IF pk[2] = 1 THEN 0 ELSE state.current_page.lines_used
        space_before == IF used_before = 0 THEN 0
                        ELSE calculate(config, elements[idx + 1]).space_before
    IN  /\ Cardinality(PlacementsAfter(id)) = 1
        /\ Len(position.pages) = 1
        /\ position.pages[1] = AllPagesAfter[pk[1]].identifier
        /\ pe.start_line >= 1
        /\ pe.start_line = used_before + space_before + 1
        /\ pe.line_count = content_lines
        /\ pe.line_range = None
        /\ pe.continuation_prefix = None
        /\ ~pe.is_continuation
        /\ position.start_line = pe.start_line
        /\ position.end_line = pe.start_line + content_lines - 1

\* C15: every element placed without a split has is_split = false, exactly
\* one placement, exactly one page in its ElementPosition, start_line >= 1
\* equal to lines_used before the placement + the effective space_before + 1,
\* line_count = content_lines, no line_range, no continuation_prefix, and
\* end_line = start_line + content_lines - 1.
C15_FitsPreservation ==
    [][(/\ ProcessesNext
        /\ elements[idx + 1].element_type # "PageBreak"
        /\ ~state'.element_positions[elements[idx + 1].id].is_split)
         => PlacedWhole]_vars

\* The element ids of the placements of the first n returned pages, read
\* page after page and placement after placement.
RECURSIVE PlacedSequence(_)
PlacedSequence(n) ==
    IF n = 0
    THEN <<>>
    ELSE PlacedSequence(n - 1)
         \o [k \in 1..Len(TheResult.pages[n].elements) |->
                TheResult.pages[n].elements[k].element_id]

\* The ids of the first n input elements that are not PageBreak elements, in
\* input order, the id of an element recorded as split twice.
RECURSIVE InputSequence(_)
InputSequence(n) ==
    IF n = 0
    THEN <<>>
    ELSE InputSequence(n - 1)
         \o (IF elements[n].element_type = "PageBreak"
             THEN <<>>
             ELSE IF TheResult.element_positions[elements[n].id].is_split
                  THEN <<elements[n].id, elements[n].id>>
                  ELSE <<elements[n].id>>)

\* C16: the placements of the result, read in page order, are the input
\* elements that are not PageBreak in input order, each once, but a split
\* element twice: as the last placement of a page and the first of the next.
C16_OrderPreservation ==
    Returned =>
        /\ PlacedSequence(Len(TheResult.pages)) = InputSequence(Len(elements))
        /\ \A id \in DOMAIN TheResult.element_positions :
               TheResult.element_positions[id].is_split =>
                   \E p \in 1..(Len(TheResult.pages) - 1) :
                       PlacementsOf(id) =
                           {<<p, Len(TheResult.pages[p].elements)>>, <<p + 1, 1>>}

\* A result of three elements in which the second was split and shares its
\* pages with the first and the third.
C16_Witness ==
    /\ Returned
    /\ Len(elements) = 3
    /\ PlacedIds = AllIds
    /\ TheResult.element_positions[2].is_split
    /\ Len(TheResult.pages) = 2
    /\ Len(TheResult.pages[1].elements) = 2
    /\ Len(TheResult.pages[2].elements) = 2

\* The input is one element, not a PageBreak, that needs at most a page.
SingleSmallElement ==
    /\ Len(elements) = 1
    /\ elements[1].element_type # "PageBreak"
    /\ calculate(config, elements[1]).total_lines <= config.lines_per_page

\* The result for the empty input: nothing.
EmptyResult ==
    /\ TheResult.stats.page_count = 0
    /\ TheResult.pages = <<>>
    /\ TheResult.warnings = <<>>
    /\ TheResult.stats.break_count = 0

\* One page with one placement at start_line 1 and no warnings.
OnePageOnePlacement ==
    /\ TheResult.stats.page_count = 1
    /\ Len(TheResult.pages) = 1
    /\ Len(TheResult.pages[1].elements) = 1
    /\ TheResult.pages[1].elements[1].start_line = 1
    /\ TheResult.warnings = <<>>

\* C17 as stated: the empty input returns no pages, no warnings and
\* break_count 0; a single element that is not a PageBreak and needs at most
\* a page returns one page with one placement at start_line 1, break_count 0
\* and no warnings.
C17_Original ==
    Returned =>
        /\ elements = <<>> => EmptyResult
        /\ SingleSmallElement =>
               (OnePageOnePlacement /\ TheResult.stats.break_count = 0)

\* C17, amended: as stated, but break_count is 1 when the single element has
\* force_page_break_after and 0 when it has not.
C17_BoundaryInputs ==
    Returned =>
        /\ elements = <<>> => EmptyResult
        /\ SingleSmallElement =>
               /\ OnePageOnePlacement
               /\ TheResult.stats.break_count =
                    IF elements[1].force_page_break_after THEN 1 ELSE 0

\* The result for a single element with force_page_break_after.
C17_Witness ==
    /\ Returned
    /\ SingleSmallElement
    /\ elements[1].force_page_break_after
    /\ OnePageOnePlacement

\* A direct call of split_dialogue or split_action has returned.
SplitCalled == probe.fn \in {"split_dialogue", "split_action"}

\* C18: for every LineCalculation with N wrapped lines and every split index
\* k >= 0, split_dialogue and split_action return first_part_content =
\* wrapped_lines[0..min(k,N)] and second_part_content =
\* wrapped_lines[min(k,N)..N]; first_part_lines and second_part_lines are
\* the lengths of those parts, so they add up to N, and the parts
\* concatenated give back wrapped_lines.
C18_SplitContract ==
    SplitCalled =>
        LET w == probe.line_calc.wrapped_lines
            N == Len(w)
            k == probe.split_at_line
            m == IF k < N THEN k ELSE N
            out == probe.out
        IN  /\ Len(out.first_part_content) = m
            /\ \A i \in 1..m : out.first_part_content[i] = w[i]
            /\ Len(out.second_part_content) = N - m
            /\ \A i \in 1..(N - m) : out.second_part_content[i] = w[m + i]
            /\ out.first_part_lines = Len(out.first_part_content)
            /\ out.second_part_lines = Len(out.second_part_content)
            /\ out.first_part_lines + out.second_part_lines = N
            /\ out.first_part_content \o out.second_part_content = w

\* C18 witness: split_dialogue has split three different-looking lines after
\* the second one, and so returned two non-empty parts.
C18_Witness ==
    /\ probe.fn = "split_dialogue"
    /\ probe.line_calc.wrapped_lines = <<<<1>>, <<2>>, <<1>>>>
    /\ probe.split_at_line = 2
    /\ probe.out.first_part_content = <<<<1>>, <<2>>>>
    /\ probe.out.second_part_content = <<<<1>>>>

\* "JOHN (CONT'D)"
JohnContd ==
    <<"J", "O", "H", "N", " ", "(", "C", "O", "N", "T", "'", "D", ")">>

\* C19: split_dialogue returns a more_marker, the configured more-marker
\* string, if and only if continuation is enabled and the second part is not
\* empty; it returns a contd_prefix if and only if it returns a more_marker
\* and the element has a character_name, and the prefix is then the
\* uppercased name, one space and the configured cont'd marker; with an empty
\* second part both markers are absent. split_action returns neither marker.
C19_SplitMarkers ==
    /\ probe.fn = "split_dialogue" =>
           LET out == probe.out
               continuation == config.continuation_style
               named == probe.element.character_name # None
           IN  /\ is_some(out.more_marker) <=>
                      (continuation.enabled /\ out.second_part_content # <<>>)
               /\ is_some(out.more_marker) =>
                      out.more_marker = <<continuation.more_marker>>
               /\ is_some(out.contd_prefix) <=>
                      (is_some(out.more_marker) /\ named)
               /\ is_some(out.contd_prefix) =>
                      /\ probe.element.character_name = <<NameJohn>>
                      /\ continuation.contd_marker
                            = <<"(", "C", "O", "N", "T", "'", "D", ")">>
                      /\ out.contd_prefix = <<JohnContd>>
               /\ out.second_part_content = <<>> =>
                      (out.more_marker = None /\ out.contd_prefix = None)
    /\ probe.fn = "split_action" =>
           (probe.out.more_marker = None /\ probe.out.contd_prefix = None)

\* C19 witness: with continuation enabled, split_dialogue has split john's
\* dialogue into two non-empty parts and returned "(MORE)" and
\* "JOHN (CONT'D)".
C19_Witness ==
    /\ probe.fn = "split_dialogue"
    /\ config.continuation_style.enabled
    /\ probe.element.character_name = <<NameJohn>>
    /\ probe.out.first_part_content # <<>>
    /\ probe.out.second_part_content # <<>>
    /\ probe.out.more_marker = <<config.continuation_style.more_marker>>
    /\ probe.out.contd_prefix = <<JohnContd>>

\* LineCalculator::calculate has been called on an element whose content is
\* the empty string.
CalculatedEmpty ==
    /\ probe.fn = "calculate"
    /\ probe.element.content = EmptyText

\* C20: LineCalculator::calculate on an element whose content is the empty
\* string returns content_lines = 0 and an empty wrapped_lines.
C20_EmptyContent ==
    CalculatedEmpty =>
        /\ probe.out.content_lines = 0
        /\ probe.out.wrapped_lines = <<>>

\* break_long_word has been called on a word longer than a line.
BrokeLongWord == probe.fn = "break_long_word"

\* ceil(n / d)
CeilDiv(n, d) == (n + d - 1) \div d

\* The lines break_long_word returned are ceil(|w| / M) lines of M bytes, the
\* last one of M bytes or fewer, and together they are the word.
BrokenInChunks ==
    LET word == probe.word
        M == probe.chars_per_line
        lines == probe.out.lines
        n == Len(lines)
    IN  /\ ~probe.out.panicked
        /\ n = CeilDiv(str_len(word), M)
        /\ \A i \in 1..(n - 1) : str_len(lines[i]) = M
        /\ str_len(lines[n]) >= 1
        /\ str_len(lines[n]) <= M
        /\ SumSeq([i \in 1..n |-> str_len(lines[i])]) = str_len(word)
        /\ \A i \in 1..n : lines[i].width = word.width

\* C21: for M = max_chars_per_line > 0, a token w with |w| > M is emitted as
\* exactly ceil(|w| / M) consecutive lines, each of length M except possibly
\* the last, whose concatenation is w.
C21_LongWordBreaking == BrokeLongWord => BrokenInChunks

\* For words of one-byte chars the long word is broken as C21 says.
LongAsciiWordBroken ==
    (BrokeLongWord /\ probe.word.width = 1) => BrokenInChunks

\* A long word whose chars take two bytes is cut inside a char.
LongWordCutInsideChar ==
    /\ BrokeLongWord
    /\ probe.word = Str(2, 2)
    /\ probe.chars_per_line = 3
    /\ probe.out.panicked

\* LineCalculator::calculate has returned for a style with
\* max_chars_per_line > 0.
Wrapped ==
    /\ probe.fn = "calculate"
    /\ style_for(probe.cfg, probe.element.element_type).max_chars_per_line > 0

\* The max_chars_per_line of the call.
WrapWidth == style_for(probe.cfg, probe.element.element_type).max_chars_per_line

\* The words of a paragraph: its tokens that are not whitespace.
WordsOf(paragraph) == SelectSeq(paragraph, LAMBDA t : t # 0)

\* The pieces a word reaches the output in: itself when it fits a line of M
\* chars, else ceil(|w| / M) chunks of M chars, the last one of the rest.
PiecesOfWord(w, M) ==
    IF w <= M
    THEN <<[len |-> w, whole |-> TRUE]>>
    ELSE [i \in 1..CeilDiv(w, M) |->
            [len |-> IF i * M <= w THEN M ELSE w - (i - 1) * M, whole |-> FALSE]]

\* The pieces of the words of a paragraph, in order.
PiecesOf(paragraph, M) ==
    LET words == WordsOf(paragraph)
    IN  Flatten([i \in 1..Len(words) |-> PiecesOfWord(words[i], M)])

\* The position, among all pieces, of the first piece of line k.
FirstPieceOf(lines, k) == 1 + SumSeq([j \in 1..(k - 1) |-> Len(lines[j])])

\* The lines hold the pieces of the paragraph in order, none lost or
\* duplicated; a chunk of a long word has a line of its own; a whole word
\* that opens a line after a line of whole words would not have fitted that
\* line with one space before it.
GreedyLines(paragraph, lines, M) ==
    LET pieces == PiecesOf(paragraph, M)
    IN  /\ IF pieces = <<>>
           THEN lines = << <<>> >>
           ELSE /\ \A k \in 1..Len(lines) : lines[k] # <<>>
                /\ Flatten(lines) = [i \in 1..Len(pieces) |-> pieces[i].len]
        /\ \A k \in 1..Len(lines) :
              \A j \in 1..Len(lines[k]) :
                 ~pieces[FirstPieceOf(lines, k) + j - 1].whole
                     => Len(lines[k]) = 1
        /\ \A k \in 2..Len(lines) :
              (/\ pieces[FirstPieceOf(lines, k)].whole
               /\ pieces[FirstPieceOf(lines, k - 1)].whole)
                 => LineLen(lines[k - 1]) + 1 + lines[k][1] > M

\* What calculate returns for one paragraph of the text of the call alone.
LinesOfParagraph(i) ==
    calculate(probe.cfg,
              [probe.element EXCEPT !.content = <<probe.element.content[i]>>]
             ).wrapped_lines

\* C22: for M > 0 and any text, every wrapped line has length <= M; the
\* tokens of each paragraph appear in the output in their order with none
\* lost or duplicated; a token of length <= M starts a new line only when
\* appending it with one space to the current line would exceed M; and the
\* lines of a text of several paragraphs are the lines of its paragraphs one
\* after the other, an empty or whitespace-only paragraph giving one empty
\* line.
C22_GreedyWrapping ==
    Wrapped =>
        LET text == probe.element.content
            lines == probe.out.wrapped_lines
        IN  /\ \A k \in 1..Len(lines) : LineLen(lines[k]) <= WrapWidth
            /\ Len(text) = 1 => GreedyLines(text[1], lines, WrapWidth)
            /\ lines = Flatten([i \in 1..Len(text) |-> LinesOfParagraph(i)])
            /\ Len(lines)
                 = SumSeq([i \in 1..Len(text) |-> Len(LinesOfParagraph(i))])
            /\ \A i \in 1..Len(text) :
                  WordsOf(text[i]) = <<>> => LinesOfParagraph(i) = << <<>> >>

\* C22 witness: calculate with max_chars_per_line 3 has wrapped the two
\* paragraphs "a b c" and "a  b" into "a b", "c" and "a b".
C22_Witness ==
    /\ Wrapped
    /\ WrapWidth = 3
    /\ probe.element.content = << <<1, 1, 1>>, <<1, 0, 1>> >>
    /\ probe.out.wrapped_lines = << <<1, 1>>, <<1>>, <<1, 1>> >>

\* The style calculate looked up in the call.
StyleOfCall == style_for(probe.cfg, probe.element.element_type)

\* The style of the call has line_spacing 1.0.
SingleSpaced == StyleOfCall.line_spacing.num = StyleOfCall.line_spacing.den

\* calc has the line totals of a style with line_spacing 1.0.
PlainTotals(calc) ==
    /\ calc.content_lines = Len(calc.wrapped_lines)
    /\ calc.space_before = StyleOfCall.space_before
    /\ calc.space_after = StyleOfCall.space_after
    /\ calc.total_lines = calc.content_lines + calc.space_after

\* C23: for a style with line_spacing 1.0, calculate returns content_lines =
\* number of wrapped lines, space_before and space_after copied from the
\* style, and total_lines = content_lines + space_after, space_before not
\* included; calculate_with_spacing returns the same values except that
\* total_lines is increased by space_before if and only if at_page_start is
\* false.
C23_LineTotals ==
    /\ (probe.fn = "calculate" /\ SingleSpaced) => PlainTotals(probe.out)
    /\ probe.fn = "calculate_with_spacing" =>
          /\ SingleSpaced => PlainTotals(probe.plain)
          /\ probe.out.content_lines = probe.plain.content_lines
          /\ probe.out.wrapped_lines = probe.plain.wrapped_lines
          /\ probe.out.space_before = probe.plain.space_before
          /\ probe.out.space_after = probe.plain.space_after
          /\ probe.out.total_lines
               = probe.plain.total_lines
                   + (IF probe.at_page_start THEN 0 ELSE StyleOfCall.space_before)

\* C23 witness: under a style with line_spacing 1.0, space_before 2 and
\* space_after 1, a content of three lines has total_lines 4 from calculate
\* and 6 from calculate_with_spacing away from the page start.
C23_Witness ==
    /\ probe.fn = "calculate_with_spacing"
    /\ SingleSpaced
    /\ ~probe.at_page_start
    /\ StyleOfCall.space_before = 2
    /\ StyleOfCall.space_after = 1
    /\ probe.plain.content_lines = 3
    /\ probe.plain.total_lines = 4
    /\ probe.out.total_lines = 6

NextFits ==
    LET lines == calculate(config, elements[idx + 1])
        space_before == IF state.current_page.lines_used = 0 THEN 0
                        ELSE lines.space_before
        remaining == IF config.lines_per_page >= state.current_page.lines_used
                     THEN config.lines_per_page - state.current_page.lines_used
                     ELSE 0
    IN  space_before + lines.total_lines <= remaining

\* The style of the element the step processes has no keep_with_next, or the
\* element is the last of the input.
NextStandsAlone ==
    \/ ~style_for(config, elements[idx + 1].element_type).keep_with_next
    \/ idx + 1 = Len(elements)

\* The step added one unsplit placement of elements[idx + 1] to the page
\* that was the current one, and ended no page but by a forced break after
\* the element.
PlacedOnCurrentPage ==
    LET element == elements[idx + 1]
        page == AllPagesAfter[Len(state.pages) + 1]
        pe == page.elements[Len(page.elements)]
    IN  /\ Len(page.elements) = Len(state.current_page.elements) + 1
        /\ SubSeq(page.elements, 1, Len(state.current_page.elements))
             = state.current_page.elements
        /\ page.identifier = state.current_page.identifier
        /\ pe.element_id = element.id
        /\ pe.line_range = None
        /\ ~pe.is_continuation
        /\ ~state'.element_positions[element.id].is_split
        /\ Cardinality(PlacementsAfter(element.id)) = 1
        /\ page.bottom_continuation = None
        /\ state'.continuation_count = state.continuation_count
        /\ IF element.force_page_break_after
           THEN /\ state'.break_count \in {state.break_count, state.break_count + 1}
                /\ state'.pages \in {state.pages, Append(state.pages, page)}
           ELSE /\ state'.break_count = state.break_count
                /\ state'.pages = state.pages

\* C25: an element whose effective space_before + total_lines is at most the
\* lines remaining on the current page, and whose style has no keep_with_next
\* or which is the last element of the input, is placed unsplit on the
\* current page, and processing it ends no page: break_count changes only if
\* force_page_break_after is set.
C25_NoUnnecessaryBreak ==
    [][(/\ ProcessesNext
        /\ elements[idx + 1].element_type # "PageBreak"
        /\ NextFits
        /\ NextStandsAlone)
         => PlacedOnCurrentPage]_vars

\* C25 witness: an Action, second of three elements and without a forced
\* break, has been placed behind the first element on the first page.
C25_Witness ==
    /\ pc = "loop"
    /\ idx = 2
    /\ Len(elements) = 3
    /\ elements[2].element_type = "Action"
    /\ ~elements[2].force_page_break_after
    /\ state.pages = <<>>
    /\ state.break_count = 0
    /\ Len(state.current_page.elements) = 2
    /\ state.current_page.elements[2].element_id = elements[2].id
    /\ state.current_page.elements[2].start_line > 1

\* The style of the element the step processes has keep_with_next, and an
\* element follows it in the input.
NextKeepsWithNext ==
    /\ style_for(config, elements[idx + 1].element_type).keep_with_next
    /\ idx + 1 < Len(elements)

\* The lines of the elements that follow the processed one, as the
\* keep-with-next rule counts them: content_lines of the first following
\* element, space_before + content_lines of each further one, among the next
\* keep_with_next_lines elements.
FollowingLines ==
    LET count == style_for(config, elements[idx + 1].element_type).keep_with_next_lines
        last == IF idx + 1 + count <= Len(elements)
                THEN idx + 1 + count ELSE Len(elements)
    IN  SumSeq([j \in 1..(last - idx - 1) |->
                  LET lines == calculate(config, elements[idx + 1 + j])
                  IN  IF j = 1 THEN lines.content_lines
                      ELSE lines.space_before + lines.content_lines])

\* The processed element and the lines that follow it do not fit the lines
\* remaining on the current page.
FollowingOverflows ==
    LET lines == calculate(config, elements[idx + 1])
        space_before == IF state.current_page.lines_used = 0 THEN 0
                        ELSE lines.space_before
        remaining == IF config.lines_per_page >= state.current_page.lines_used
                     THEN config.lines_per_page - state.current_page.lines_used
                     ELSE 0
    IN  space_before + lines.total_lines + FollowingLines > remaining

\* The step ended the current page if it had placements and put
\* elements[idx + 1] unsplit at the top of a page, start_line 1.
PlacedAtPageTop ==
    LET element == elements[idx + 1]
        fresh == state.current_page.elements = <<>>
        at == IF fresh THEN Len(state.pages) + 1 ELSE Len(state.pages) + 2
    IN  /\ Len(AllPagesAfter) >= at
        /\ ~fresh => AllPagesAfter[at - 1] = state.current_page
        /\ Len(AllPagesAfter[at].elements) = 1
        /\ AllPagesAfter[at].elements[1].element_id = element.id
        /\ AllPagesAfter[at].elements[1].start_line = 1
        /\ AllPagesAfter[at].elements[1].line_range = None
        /\ Cardinality(PlacementsAfter(element.id)) = 1

\* C26: for an element that fits, whose style has keep_with_next and that
\* has a next element, let following be content_lines of the first following
\* element + (space_before + content_lines) of each further element among
\* the next keep_with_next_lines elements; if total_needed + following >
\* remaining the element is placed as the first placement (start_line 1) of
\* a page, after ending the current page when it was non-empty; otherwise it
\* is placed on the current page.
C26_KeepWithNextRule ==
    [][(/\ ProcessesNext
        /\ elements[idx + 1].element_type # "PageBreak"
        /\ NextFits
        /\ NextKeepsWithNext)
         => IF FollowingOverflows THEN PlacedAtPageTop ELSE PlacedOnCurrentPage]_vars

\* The least line counts of the two halves of a split of element id: those
\* of orphan_control for a Dialogue, of the style for an Action.
MinBeforeSplit(id) ==
    IF elements[id].element_type = "Dialogue"
    THEN config.orphan_control.dialogue_min_before_split
    ELSE StyleOfId(id).min_lines_before_split

MinAfterSplit(id) ==
    IF elements[id].element_type = "Dialogue"
    THEN config.orphan_control.dialogue_min_after_split
    ELSE StyleOfId(id).min_lines_after_split

\* C27: in every result, each split Dialogue has first-half line_count >=
\* orphan_control.dialogue_min_before_split and second-half line_count >=
\* orphan_control.dialogue_min_after_split, and each split Action has
\* first-half line_count >= style.min_lines_before_split and second-half
\* line_count >= style.min_lines_after_split.
C27_OrphanMinima ==
    Returned =>
        \A id \in PlacedIds :
            \A pk \in PlacementsOf(id) :
                IsSplit(PlacementAt(pk)) =>
                    IF PlacementAt(pk).is_continuation
                    THEN PlacementAt(pk).line_count >= MinAfterSplit(id)
                    ELSE PlacementAt(pk).line_count >= MinBeforeSplit(id)

\* The element the step processes may be split: a Dialogue or an Action whose
\* style has can_split.
NextSplittable ==
    /\ elements[idx + 1].element_type \in {"Dialogue", "Action"}
    /\ style_for(config, elements[idx + 1].element_type).can_split

\* The step recorded elements[idx + 1] as split or gave it a placement with a
\* line_range.
NextWasSplit ==
    \/ state'.element_positions[elements[idx + 1].id].is_split
    \/ \E pk \in PlacementsAfter(elements[idx + 1].id) :
          AllPagesAfter[pk[1]].elements[pk[2]].line_range # None

\* C28: only elements of type Dialogue or Action whose style has can_split
\* are ever split; every element of another type, whatever the can_split of
\* its style, and every Dialogue or Action without can_split, has exactly one
\* placement with no line_range, and when it does not fit it is the first
\* placement of the next page.
C28_Splittability ==
    [][(ProcessesNext /\ elements[idx + 1].element_type # "PageBreak") =>
          /\ NextWasSplit => NextSplittable
          /\ ~NextSplittable =>
                /\ Cardinality(PlacementsAfter(elements[idx + 1].id)) = 1
                /\ ~NextFits => PlacedAtPageTop]_vars

\* The decision for the element the step processes is SplitAt at a line that
\* leaves no line on one side of the split.
NextSplitDegenerate ==
    LET decision == decision_for(state, config, elements, idx + 1)
        content_lines == calculate(config, elements[idx + 1]).content_lines
    IN  /\ decision.kind = "SplitAt"
        /\ \/ decision.line = 0
           \/ decision.line >= content_lines

\* No placement of the pages built so far has a line_range with start = end.
NoEmptyLineRange ==
    \A p \in PageIndexes :
        \A k \in 1..Len(AllPages[p].elements) :
            LET pe == AllPages[p].elements[k]
            IN  IsSplit(pe) => pe.line_range[1].start < pe.line_range[1].end

\* C29: when a SplitAt decision would put 0 lines on either side, the element
\* is treated as BreakBefore: the current page is ended if non-empty and the
\* whole element is placed unsplit on the new page; no placement in any
\* result has an empty line_range (start = end), and no MORE marker or
\* continuation_count increment results from such a decision.
C29_DegenerateSplit ==
    /\ []NoEmptyLineRange
    /\ [][(/\ ProcessesNext
           /\ elements[idx + 1].element_type # "PageBreak"
           /\ NextSplitDegenerate)
            => /\ PlacedAtPageTop
               /\ ~state'.element_positions[elements[idx + 1].id].is_split
               /\ state'.continuation_count = state.continuation_count
               /\ \A p \in (Len(state.pages) + 1)..Len(AllPagesAfter) :
                     AllPagesAfter[p].bottom_continuation = None]_vars

\* The first placement of page p is the first half of a split element.
OpensWithFirstHalf(p) ==
    /\ AllPages[p].elements # <<>>
    /\ IsSplit(AllPages[p].elements[1])
    /\ ~AllPages[p].elements[1].is_continuation

\* The first placement of page p is a split second half that carries a
\* continuation_prefix.
OpensWithPrefixedHalf(p) ==
    /\ AllPages[p].elements # <<>>
    /\ AllPages[p].elements[1].is_continuation
    /\ AllPages[p].elements[1].continuation_prefix # None

\* The lines the MORE marker of page p takes.
MoreLines(p) == IF AllPages[p].bottom_continuation # None THEN 1 ELSE 0

\* C30: the first placement on every page has start_line = 1, or start_line
\* = 2 when it is a split second half carrying a continuation_prefix; the
\* first half of an element split while the page is empty has start_line = 1
\* in its placement and in its ElementPosition, and no space_before is
\* consumed: the page uses the lines of the half and of the MORE marker only.
C30_PageTopPlacement ==
    \A p \in PageIndexes :
        /\ AllPages[p].elements # <<>> =>
              AllPages[p].elements[1].start_line =
                  (IF OpensWithPrefixedHalf(p) THEN 2 ELSE 1)
        /\ OpensWithFirstHalf(p) =>
              LET pe == AllPages[p].elements[1]
              IN  /\ pe.start_line = 1
                  /\ pe.element_id \in DOMAIN state.element_positions
                  /\ state.element_positions[pe.element_id].start_line = 1
                  /\ AllPages[p].lines_used = pe.line_count + MoreLines(p)

\* An Action that takes space_before elsewhere was split on an empty page,
\* and a page opens with a second half under its continuation prefix.
C30_Witness ==
    /\ Returned
    /\ \E p \in PageIndexes :
          /\ OpensWithFirstHalf(p)
          /\ \E i \in 1..Len(elements) :
                /\ elements[i].id = AllPages[p].elements[1].element_id
                /\ calculate(config, elements[i]).space_before > 0
    /\ \E p \in PageIndexes : OpensWithPrefixedHalf(p)

\* The record of element id in the result's element_positions names the two
\* pages that hold the halves a and b, starts where a starts and ends on the
\* last line b occupies.
RecordsHalves(id, a, b) ==
    LET position == TheResult.element_positions[id]
    IN  /\ position.pages = <<TheResult.pages[a[1]].identifier,
                              TheResult.pages[b[1]].identifier>>
        /\ position.is_split
        /\ position.start_line = PlacementAt(a).start_line
        /\ position.end_line =
             PlacementAt(b).start_line + PlacementAt(b).line_count - 1

\* The placements of a split element id: its first half a and second half b.
HalvesOf(id) ==
    {ab \in PlacementsOf(id) \X PlacementsOf(id) :
        /\ IsSplit(PlacementAt(ab[1]))
        /\ ~PlacementAt(ab[1]).is_continuation
        /\ IsSplit(PlacementAt(ab[2]))
        /\ PlacementAt(ab[2]).is_continuation}

\* C31: for every split element, element_positions holds pages = [p1, p2]
\* (the identifiers of the pages holding its first and second halves),
\* is_split = true, start_line equal to the start_line of its first-half
\* placement on p1, and end_line equal to the last line its second half
\* occupies on p2 (second-half start_line + second-half line_count - 1).
C31_SplitPositionRecord ==
    Returned =>
        \A id \in PlacedIds :
            \A ab \in HalvesOf(id) : RecordsHalves(id, ab[1], ab[2])

\* The same record, but for end_line, which the code gives: the line_count of
\* the second half.
RecordsHalvesByCount(id, a, b) ==
    LET position == TheResult.element_positions[id]
    IN  /\ position.pages = <<TheResult.pages[a[1]].identifier,
                              TheResult.pages[b[1]].identifier>>
        /\ position.is_split
        /\ position.start_line = PlacementAt(a).start_line
        /\ position.end_line = PlacementAt(b).line_count

\* Every split element of a result is recorded with the pages of its halves,
\* the start_line of its first half and the line_count of its second half.
SplitRecordedByCount ==
    Returned =>
        \A id \in PlacedIds :
            \A ab \in HalvesOf(id) : RecordsHalvesByCount(id, ab[1], ab[2])

\* The step processes an element with force_page_break_after that is not a
\* PageBreak.
NextIsForced ==
    /\ ProcessesNext
    /\ elements[idx + 1].element_type # "PageBreak"
    /\ elements[idx + 1].force_page_break_after

\* The state the step would give had the element no force_page_break_after.
WithoutForce ==
    loop_body(state, config,
              [elements EXCEPT ![idx + 1].force_page_break_after = FALSE],
              idx + 1)

\* The step left the last placement of elements[idx + 1] as the last
\* placement of the page it ended, and an empty current page.
EndedPageAfterNext ==
    /\ state'.current_page.elements = <<>>
    /\ state'.pages # <<>>
    /\ LET page == state'.pages[Len(state'.pages)]
       IN  /\ page.elements # <<>>
           /\ LET pe == page.elements[Len(page.elements)]
              IN  /\ pe.element_id = elements[idx + 1].id
                  /\ state'.element_positions[pe.element_id].is_split
                       => pe.is_continuation

\* The step processes a PageBreak that directly follows an element with
\* force_page_break_after.
NextIsPageBreakAfterForced ==
    /\ ProcessesNext
    /\ idx >= 1
    /\ elements[idx + 1].element_type = "PageBreak"
    /\ elements[idx].element_type # "PageBreak"
    /\ elements[idx].force_page_break_after

\* C32: an element with force_page_break_after is always the last placement
\* of the page holding it (the page holding its second half if it was
\* split), the next placed element starts at the top of a later page, and
\* break_count is incremented exactly once for the forced break; a PageBreak
\* element directly following it ends no additional page and creates no
\* empty page.
C32_ForcedBreakAfter ==
    [][/\ NextIsForced =>
            /\ EndedPageAfterNext
            /\ state'.break_count = WithoutForce.break_count + 1
            /\ state'.pages = Append(WithoutForce.pages, WithoutForce.current_page)
       /\ NextIsPageBreakAfterForced =>
            /\ state'.pages = state.pages
            /\ state'.current_page = state.current_page
            /\ state'.break_count = state.break_count]_vars

\* The pages the step appended to pages.
AppendedPages == (Len(state.pages) + 1)..Len(state'.pages)

\* The pages that were in pages before the step are in pages after it, at
\* the same places and unchanged.
FinishedPagesKept ==
    /\ Len(state'.pages) >= Len(state.pages)
    /\ SubSeq(state'.pages, 1, Len(state.pages)) = state.pages

\* Page P ends in the first half of a split Dialogue.
EndsInFirstHalfOfDialogue(P) ==
    /\ P.elements # <<>>
    /\ LET pe == P.elements[Len(P.elements)]
       IN  /\ IsSplit(pe)
           /\ ~pe.is_continuation
           /\ elements[pe.element_id].element_type = "Dialogue"

\* The first page the step appended is the page that was current, with its
\* identifier and its placements kept in front of the ones the step added;
\* the pages appended after it were begun by the step.
CurrentPageFinished ==
    AppendedPages # {} =>
        LET P == state'.pages[Len(state.pages) + 1]
        IN  /\ P.identifier = state.current_page.identifier
            /\ Len(P.elements) >= Len(state.current_page.elements)
            /\ SubSeq(P.elements, 1, Len(state.current_page.elements))
                 = state.current_page.elements

\* The current page carries no bottom_continuation.
CurrentPageUnmarked == state.current_page.bottom_continuation = None

\* C33: each page goes Empty -> Filling -> (optionally Continued) ->
\* Finalized; once bottom_continuation is set on a page no further placement
\* is added to it and it is finalized in the same step; once a page has been
\* appended to pages its placements, lines_used, bottom_continuation and
\* identifier are never changed by the processing of any later element;
\* bottom_continuation is only ever set on a page whose last placement is
\* the first half of a split Dialogue.
C33_PageLifeCycle ==
    /\ []CurrentPageUnmarked
    /\ [][/\ ProcessesNext =>
               /\ FinishedPagesKept
               /\ CurrentPageFinished
               /\ \A p \in AppendedPages :
                     state'.pages[p].bottom_continuation # None =>
                         /\ EndsInFirstHalfOfDialogue(state'.pages[p])
                         /\ state'.pages[p].elements[Len(state'.pages[p].elements)].element_id
                              = elements[idx + 1].id
          /\ (pc = "loop" /\ pc' = "done") =>
               /\ Len(result'[1].pages) >= Len(state.pages)
               /\ SubSeq(result'[1].pages, 1, Len(state.pages)) = state.pages]_vars

\* A page under a MORE marker was finished and another element was processed
\* after the one that was split.
C33_Witness ==
    /\ Returned
    /\ Len(TheResult.pages) >= 2
    /\ TheResult.pages[1].bottom_continuation # None
    /\ EndsInFirstHalfOfDialogue(TheResult.pages[1])
    /\ Len(TheResult.pages[2].elements) >= 2

\* The step split elements[idx + 1], a Dialogue of at most 255 content lines,
\* and set bottom_continuation on the page it finished.
NextSetMoreMarker ==
    /\ ProcessesNext
    /\ elements[idx + 1].element_type = "Dialogue"
    /\ calculate(config, elements[idx + 1]).content_lines < U8Limit
    /\ Len(state'.pages) = Len(state.pages) + 1
    /\ state'.pages[Len(state'.pages)].bottom_continuation # None

\* The page was not empty and had at least the Dialogue's space_before lines
\* remaining when the step began.
SplitBelowPageTop ==
    /\ state.current_page.elements # <<>>
    /\ lines_remaining(state, config.lines_per_page)
         >= calculate(config, elements[idx + 1]).space_before

\* C34: on every page whose bottom_continuation was set by a dialogue split
\* (the dialogue's content_lines being at most 255), lines_used <=
\* lines_per_page, because the split point reserves one line for the marker;
\* when the split happens on a non-empty page with at least space_before
\* lines remaining, lines_used of that page is exactly lines_per_page.
C34_MoreLineInsidePage ==
    [][NextSetMoreMarker =>
          LET page == state'.pages[Len(state'.pages)]
          IN  /\ page.lines_used <= config.lines_per_page
              /\ SplitBelowPageTop => page.lines_used = config.lines_per_page]_vars

\* Every element of the input is a PageBreak.
OnlyPageBreaks ==
    \A i \in 1..Len(elements) : elements[i].element_type = "PageBreak"

\* C35: every page in result.pages has at least one placement, for any
\* input, including inputs with consecutive PageBreak elements, a leading or
\* trailing PageBreak, and force_page_break_after followed by PageBreak; an
\* input consisting only of PageBreak elements yields page_count = 0.
C35_NoEmptyPages ==
    Returned =>
        /\ \A p \in 1..Len(TheResult.pages) : TheResult.pages[p].elements # <<>>
        /\ OnlyPageBreaks =>
              /\ TheResult.pages = <<>>
              /\ TheResult.stats.page_count = 0

\* The result for a leading PageBreak, an element with
\* force_page_break_after, and a trailing PageBreak.
C35_Witness ==
    /\ Returned
    /\ Len(elements) = 3
    /\ elements[1].element_type = "PageBreak"
    /\ elements[2].element_type # "PageBreak"
    /\ elements[2].force_page_break_after
    /\ elements[3].element_type = "PageBreak"
    /\ Len(TheResult.pages) = 1

\* The pages of the result that carry a bottom_continuation.
ContinuedPages ==
    {p \in 1..Len(TheResult.pages) : TheResult.pages[p].bottom_continuation # None}

\* The number of pages the loop ended: each end_page pushed one page.
PagesEnded == Len(state.pages)

\* The page in progress at the end of the input had placements.
LastPageInProgress == state.current_page.elements # <<>>

\* C36: in every result, stats.page_count = length of pages;
\* stats.element_count = number of input elements including PageBreak
\* elements; stats.break_count = number of times a page was ended, so
\* page_count = break_count + 1 when the last page in progress had placements
\* at end of input and page_count = break_count otherwise;
\* stats.continuation_count = number of pages whose bottom_continuation is
\* set.
C36_StatisticsCoherence ==
    Returned =>
        /\ TheResult.stats.page_count = Len(TheResult.pages)
        /\ TheResult.stats.element_count = Len(elements)
        /\ TheResult.stats.break_count = PagesEnded
        /\ TheResult.stats.page_count =
             TheResult.stats.break_count + (IF LastPageInProgress THEN 1 ELSE 0)
        /\ TheResult.stats.continuation_count = Cardinality(ContinuedPages)

\* A result for an input with a PageBreak and a Dialogue split under a MORE
\* marker, whose last page was in progress at the end of the input.
C36_Witness ==
    /\ Returned
    /\ Len(elements) = 3
    /\ PlacedIds # AllIds
    /\ ContinuedPages # {}
    /\ LastPageInProgress
    /\ TheResult.stats.break_count >= 2

\* C37: after processing any prefix of any input, the current page has
\* lines_used = 0 if and only if it has no placements (so the at_page_start
\* test used for space_before suppression and PageBreak skipping agrees with
\* the emptiness test used at finalization); this must hold with lines_used
\* stored in 8 bits, including after placing an element whose total_lines is
\* a multiple of 256.
C37_PageStartCoherence ==
    pc \in {"loop", "done"} =>
        (at_page_start(state) <=> state.current_page.elements = <<>>)

\* On every page built so far, each placement starts below the last line of
\* the placement before it, and below its start.
PlacementsApart ==
    \A p \in PageIndexes :
        \A k \in 1..(Len(AllPages[p].elements) - 1) :
            LET a == AllPages[p].elements[k]
                b == AllPages[p].elements[k + 1]
            IN  /\ b.start_line > a.start_line
                /\ b.start_line > a.start_line + a.line_count - 1

\* The page that was current when the step began, as the step left it.
CurrentPageAfter ==
    IF Len(state'.pages) > Len(state.pages)
    THEN state'.pages[Len(state.pages) + 1]
    ELSE state'.current_page

\* The step added a placement to a page that already held one.
PlacedBelowAnother ==
    /\ ProcessesNext
    /\ state.current_page.elements # <<>>
    /\ Len(CurrentPageAfter.elements) > Len(state.current_page.elements)

\* C38: on every page of every result, placements have strictly increasing
\* start_line and for consecutive placements a then b, b.start_line >
\* a.start_line + a.line_count - 1; moreover b.start_line = (lines_used after
\* placing a) + (space_before of b's style) + 1.
C38_NoOverlap ==
    /\ []PlacementsApart
    /\ [][PlacedBelowAnother =>
            LET b == CurrentPageAfter.elements[Len(state.current_page.elements) + 1]
            IN  b.start_line =
                    state.current_page.lines_used
                      + style_for(config, elements[idx + 1].element_type).space_before
                      + 1]_vars

\* The number of element lines the placement pe holds.
LinesHeld(pe) ==
    IF IsSplit(pe)
    THEN pe.line_range[1].end - pe.line_range[1].start
    ELSE CalcOfId(pe.element_id).content_lines

RECURSIVE SumOfCounts(_)
SumOfCounts(pks) ==
    IF pks = {}
    THEN 0
    ELSE LET pk == CHOOSE x \in pks : TRUE
         IN  PlacementAt(pk).line_count + SumOfCounts(pks \ {pk})

\* C39: for every placement in every result, the 8-bit line_count equals
\* the true number of element lines it holds: content_lines for an unsplit
\* placement and line_range.end - line_range.start for a split placement
\* (also when an element or a split half has 256 or more lines), so the sum
\* of line_count over an element's placements equals its content_lines.
C39_LineCountWidth ==
    Returned =>
        \A id \in PlacedIds :
            /\ \A pk \in PlacementsOf(id) :
                  PlacementAt(pk).line_count = LinesHeld(PlacementAt(pk))
            /\ SumOfCounts(PlacementsOf(id)) = CalcOfId(id).content_lines

====
